---- MODULE Spec2Model ----
(***************************************************************************)
(* Task manager: the useTasks synchronisation hook, the database schema    *)
(* (triggers, row level security), the auth provider and the service       *)
(* worker, as state machines over one set of variables.                    *)
(*                                                                         *)
(*   SpecHook    useTasks against the tasks table and its change feed      *)
(*   SpecRemote  useTasks when only other clients write                    *)
(*   SpecUpdate  updateTask on a task that another session edits too       *)
(*   SpecCreate  createTask on a network that fails more often             *)
(*   SpecToggle  toggleTaskStatus on two tasks                             *)
(*   SpecLoad    the loading flag of useTasks, with its timers fair         *)
(*   SpecEffect  useTasks while the signed-in user changes                  *)
(*   SpecDb      the schema: sessions sending statements to the tables     *)
(*   SpecTasks   the schema: one account writing its tasks                 *)
(*   SpecAuth    the auth provider, its rendering and its profile requests *)
(*   SpecSW      the service worker's fetch listener and the caches        *)
(*   SpecWorker  the service worker from its install event on              *)
(***************************************************************************)
EXTENDS Integers, Sequences, FiniteSets, TLC

\* ------------------------------------------------------------- bounds
\* server writes to the tasks table in one behaviour (the clock NOW() stops there)
MaxWrites == 2
\* calls of createTask / updateTask / toggleTaskStatus / deleteTask / refreshData made by the UI
MaxCalls == 1
\* requests the network fails or createTask gives up waiting for
MaxFailures == 1
\* statements that write, sent to the database by the sessions of SpecDb
MaxDbWrites == 4
\* auth events the Supabase client delivers to onAuthStateChange
MaxAuthEvents == 3
\* profile requests of the SIGNED_IN handlers that fail
MaxAuthFailures == 1
\* fetch events the service worker receives
MaxRequests == 3
\* requests that fail or time out while createTask is looked at on its own
MaxCreateFailures == 3
\* calls of toggleTaskStatus while it is looked at on its own
MaxToggles == 2
\* runs of loadData one instance of useTasks starts over its renders
MaxLoads == 2

\* ------------------------------------------------------------- values
NULL == "null"
\* a NULL timestamptz; NOW() is always >= 1
NoTime == 0
\* a NULL uuid; gen_random_uuid() is never 0
NoId == 0

\* the signed-in user of the hook
User == "u1"

TaskStatus == {"todo", "in_progress", "completed", "cancelled"}
TaskPriority == {"low", "medium", "high", "urgent"}

TaskColumns ==
  {"id", "user_id", "category_id", "title", "description", "status",
   "priority", "due_date", "completed_at", "created_at", "updated_at"}

\* column defaults of public.tasks; id and the timestamps are filled by NewTaskRow
TaskDefault(col) ==
  CASE col = "status" -> "todo"
    [] col = "priority" -> "medium"
    [] col \in {"due_date", "completed_at"} -> NoTime
    [] col = "category_id" -> NoId
    [] OTHER -> NULL

\* INSERT INTO tasks (...cols of vals...) at time t: gen_random_uuid() is the
\* fresh number t, created_at and updated_at default to NOW()
NewTaskRow(vals, t) ==
  [col \in TaskColumns |->
     IF col \in DOMAIN vals THEN vals[col]
     ELSE IF col \in {"id", "created_at", "updated_at"} THEN t
     ELSE TaskDefault(col)]

\* trigger update_tasks_updated_at
update_updated_at_column(new, t) == [new EXCEPT !.updated_at = t]

\* set_completed_at without its ELSIF branch: the stamp is never reset
set_completed_at_NoReset(old, new, t) ==
  IF new.status = "completed" /\ old.status # "completed"
    THEN [new EXCEPT !.completed_at = t]
  ELSE new

\* trigger set_task_completed_at
set_completed_at(old, new, t) ==
  IF new.status = "completed" /\ old.status # "completed"
    THEN [new EXCEPT !.completed_at = t]
  ELSE IF new.status # "completed"
    THEN [new EXCEPT !.completed_at = NoTime]
  ELSE new

\* UPDATE tasks SET (cols of vals) on row old at time t, BEFORE UPDATE triggers applied
UpdatedTaskRow(old, vals, t) ==
  LET new == [col \in TaskColumns |->
                IF col \in DOMAIN vals THEN vals[col] ELSE old[col]]
  IN update_updated_at_column(set_completed_at(old, new, t), t)

\* createTask: const maxRetries = 3
maxRetries == 3

\* ------------------------------------------------------------- inputs
\* CreateTaskData values the UI passes to createTask
CreateInputs ==
  { [title |-> "a", priority |-> "medium"] }

\* UpdateTaskData values the UI passes to updateTask
UpdateInputs ==
  { [title |-> "b", description |-> "d"],
    [status |-> "in_progress"],
    [priority |-> "high", category_id |-> 2, due_date |-> 9] }

\* ------------------------------------------------------------- state
VARIABLES
  dbTasks,      \* public.tasks: id -> row
  now,          \* the database clock, one tick per write
  rtQueue,      \* change events the feed has not handed to the channel yet
  rtSeen,       \* events whose handler ran          (history)
  rtLost,       \* events the channel never delivered (history)
  subscribed,   \* subscriptionRef.current is a channel
  tasks,        \* useState<Task[]>
  categories,   \* useState<Category[]>
  loading,      \* useState(true)
  error,        \* useState<string | null>
  effectPc,     \* the subscription effect: "mount", "loading", "loaded", "failed"
  loadTimer,    \* loadData's 15 s timeout is pending
  calls,        \* async calls in flight, one record each
  timers,       \* pending fallback timers
  joins,        \* the Promise.all of each loadData / refreshData in flight
  nCalls,       \* tags handed to UI calls so far
  nFailures,    \* requests failed or timed out so far
  results,      \* how each finished UI call ended  (history)
  dbUsers,      \* public.users: id -> row
  dbCategories, \* public.categories: id -> row
  lastOp,       \* the statement the database executed last, and its rows (history)
  appOnly,      \* tasks made by createTask and changed by updateTask alone (history)
  authSession,  \* AuthProvider: useState<Session | null>, the session's account
  authUser,     \* AuthProvider: useState<User | null>
  authLoading,  \* AuthProvider: useState(true)
  authPc,       \* getSession(): "pending" or "settled"
  authToken,    \* the session the Supabase client holds and sends requests with
  authTimer,    \* the 10 s timeout is pending
  pendingSets,  \* state setters the running callback has yet to call
  handlers,     \* SIGNED_IN handlers between their awaits
  handled,      \* accounts a SIGNED_IN handler has run to its end for (history)
  reached,      \* accounts whose profile a handler found or whose insert the
                \* database executed (history)
  screen,       \* what AppContent rendered last
  route,        \* what ProtectedRoute rendered last
  nAuthEvents,  \* auth events delivered so far
  nAuthFailures, \* profile requests failed so far
  swCaches,     \* CacheStorage of the origin: cache name -> (url -> response)
  swRequests,   \* the fetch events so far, in order of arrival, and how far each got
  swPuts,       \* cache.put calls that have not landed yet
  swWorker,     \* the worker's lifecycle state, the activate handler's cacheNames
                \* and its caches.delete calls pending
  limits,       \* how many UI calls, server writes and failures the behaviour has
  effect,       \* the subscription effect of each useTasks instance over its renders
  loads,        \* every loadData the effect of each instance has started, in order
  channels,     \* the channels the Supabase client holds subscribed
  subscriptionRef \* subscriptionRef.current of each instance: the load whose
                \* channel it holds, or 0

\* the state of useTasks and of the channel that feeds it
clientVars ==
  <<rtQueue, rtSeen, rtLost, subscribed, tasks, categories, loading, error,
    effectPc, loadTimer, calls, timers, joins, nCalls, nFailures, results>>

hookVars == <<dbTasks, now, clientVars>>

schemaVars == <<dbUsers, dbCategories, lastOp, appOnly>>

authVars ==
  <<authSession, authUser, authLoading, authPc, authToken, authTimer, pendingSets, handlers,
    handled, reached, screen, route, nAuthEvents, nAuthFailures>>

swVars == <<swCaches, swRequests, swPuts, swWorker>>

\* the effect of useTasks when its user changes between renders
effectVars == <<effect, loads, channels, subscriptionRef>>

\* what useTasks and the tasks table's other clients leave alone
outsideHook == <<schemaVars, authVars, swVars, limits, effectVars>>

\* what a statement sent to the database leaves alone
outsideDb == <<clientVars, authVars, swVars, limits, effectVars>>

\* what the auth provider and its profile requests leave alone
outsideAuth == <<clientVars, dbTasks, appOnly, swVars, limits, effectVars>>

\* what the service worker leaves alone
outsideSW == <<hookVars, schemaVars, authVars, limits, effectVars>>

vars == <<hookVars, schemaVars, authVars, swVars, limits, effectVars>>

\* ------------------------------------------------------------- helpers
NoArg == [none |-> TRUE]
NoErr == [message |-> NULL, isError |-> FALSE]
NoRes == [ok |-> FALSE, data |-> <<>>, err |-> NoErr]
Ok(rows) == [ok |-> TRUE, data |-> rows, err |-> NoErr]
Fail(e) == [ok |-> FALSE, data |-> <<>>, err |-> e]

\* what a request can fail with: the SDK hands back either an Error instance or a
\* plain error object, depending on where the failure arose
RequestErrors ==
  { [message |-> "Failed to fetch", isError |-> TRUE],
    [message |-> "request failed", isError |-> FALSE] }

\* .single() on a result of zero rows
NoRowsError == [message |-> "JSON object requested, multiple (or no) rows returned",
                isError |-> FALSE]

\* utils/networkUtils.getErrorMessage: a user-facing text for the error
getErrorMessage(e) == "friendly: " \o e.message

Ids(list) == {list[i].id : i \in DOMAIN list}

\* prev.some(task => task.id === id)
Exists(prev, id) == \E i \in DOMAIN prev : prev[i].id = id

\* prev.filter(task => task.id !== id)
Without(prev, id) == SelectSeq(prev, LAMBDA task : task.id # id)

\* prev.map(task => task.id === data.id ? data : task)
Replaced(prev, data) ==
  [i \in DOMAIN prev |-> IF prev[i].id = data.id THEN data ELSE prev[i]]

Count(list, id) == Cardinality({i \in DOMAIN list : list[i].id = id})

RECURSIVE OrderDesc(_)
\* .order('created_at', { ascending: false })
OrderDesc(rows) ==
  IF rows = {} THEN <<>>
  ELSE LET r == CHOOSE x \in rows : \A y \in rows : y.created_at <= x.created_at
       IN <<r>> \o OrderDesc(rows \ {r})

\* select ... from tasks where user_id = uid order by created_at desc
TasksOf(uid) ==
  OrderDesc({dbTasks[i] : i \in {j \in DOMAIN dbTasks : dbTasks[j].user_id = uid}})

\* the rows the trigger create_default_categories made, ordered by name
DefaultCategoryNames == <<"Health", "Personal", "Shopping", "Work">>

\* an async call in flight. owner: the loadData (0) or refreshData (its tag) a fetch
\* belongs to; skip: updateTask's skipOptimistic; revert: the status toggleTaskStatus
\* found, NULL when the call is not a toggle's; delay: the ms createTask waits
\* before its next attempt
Call(tag, op, id, arg, owner, skip) ==
  [tag |-> tag, op |-> op, phase |-> "sent", id |-> id, arg |-> arg,
   res |-> NoRes, attempt |-> 1, owner |-> owner, skip |-> skip, revert |-> NULL,
   delay |-> 0]

Answered(c, res) == [c EXCEPT !.phase = "answered", !.res = res]

\* the response to request c; nobody waits for the response to an abandoned request
Response(c, res) == IF c.op = "abandoned" THEN {} ELSE {Answered(c, res)}

InFlight(op, phase) == {c \in calls : c.op = op /\ c.phase = phase}

\* the change feed: a write to a row of the subscribed user becomes an event;
\* with no channel the event is never seen
Emit(type, row) ==
  LET ev == [seq |-> now + 1, type |-> type, id |-> row.id, user_id |-> row.user_id]
  IN IF subscribed
       THEN rtQueue' = Append(rtQueue, ev) /\ rtLost' = rtLost
       ELSE rtQueue' = rtQueue /\ rtLost' = rtLost \cup {ev}

\* ------------------------------------------------------------- the database answers
\* Each request of the hook is answered at some moment between its sending and the
\* arrival of the response; the answer is the table's contents at that moment.

\* fetchTasks: getSession, the connectivity probe and the full select
SelectTasks(c) ==
  /\ c \in InFlight("fetchTasks", "sent")
  /\ calls' = (calls \ {c}) \cup {Answered(c, Ok(TasksOf(User)))}
  /\ UNCHANGED <<dbTasks, now, rtQueue, rtSeen, rtLost, subscribed, tasks, categories,
                 loading, error, effectPc, loadTimer, timers, joins, nCalls, results, nFailures>>
  /\ UNCHANGED outsideHook

\* fetchCategories: select * from categories where user_id = ... order by name
SelectCategories(c) ==
  /\ c \in InFlight("fetchCategories", "sent")
  /\ calls' = (calls \ {c}) \cup {Answered(c, Ok(DefaultCategoryNames))}
  /\ UNCHANGED <<dbTasks, now, rtQueue, rtSeen, rtLost, subscribed, tasks, categories,
                 loading, error, effectPc, loadTimer, timers, joins, nCalls, results, nFailures>>
  /\ UNCHANGED outsideHook

\* the handlers' select ... where id = payload.new.id, .single()
SelectTaskById(c) ==
  /\ c \in InFlight("rtInsert", "sent") \cup InFlight("rtUpdate", "sent")
  /\ LET res == IF c.id \in DOMAIN dbTasks THEN Ok(<<dbTasks[c.id]>>)
                ELSE Fail(NoRowsError)
     IN calls' = (calls \ {c}) \cup {Answered(c, res)}
  /\ UNCHANGED <<dbTasks, now, rtQueue, rtSeen, rtLost, subscribed, tasks, categories,
                 loading, error, effectPc, loadTimer, timers, joins, nCalls, results, nFailures>>
  /\ UNCHANGED outsideHook

\* insert into tasks ({...taskData, user_id}) returning the row
InsertTask(c) ==
  /\ c \in InFlight("createTask", "sent") \cup InFlight("abandoned", "sent")
  /\ \/ /\ now < limits.writes
        /\ LET row == NewTaskRow([user_id |-> User] @@ c.arg, now + 1)
           IN /\ dbTasks' = (now + 1 :> row) @@ dbTasks
              /\ Emit("INSERT", row)
              /\ calls' = (calls \ {c}) \cup Response(c, Ok(<<row>>))
        /\ now' = now + 1
  /\ UNCHANGED <<rtSeen, subscribed, tasks, categories, loading, error, effectPc,
                 loadTimer, timers, joins, nCalls, results, nFailures>>
  /\ UNCHANGED outsideHook

\* update tasks set (updates) where id = ... returning the row, .single()
UpdateTaskRow(c) ==
  /\ c \in InFlight("updateTask", "sent")
  /\ \/ /\ now < limits.writes
        /\ c.id \in DOMAIN dbTasks
        /\ LET row == UpdatedTaskRow(dbTasks[c.id], c.arg, now + 1)
           IN /\ dbTasks' = [dbTasks EXCEPT ![c.id] = row]
              /\ Emit("UPDATE", row)
              /\ calls' = (calls \ {c}) \cup {Answered(c, Ok(<<row>>))}
        /\ now' = now + 1
     \/ /\ c.id \notin DOMAIN dbTasks
        /\ calls' = (calls \ {c}) \cup {Answered(c, Fail(NoRowsError))}
        /\ UNCHANGED <<dbTasks, now, rtQueue, rtLost>>
  /\ UNCHANGED <<rtSeen, subscribed, tasks, categories, loading, error, effectPc,
                 loadTimer, timers, joins, nCalls, results, nFailures>>
  /\ UNCHANGED outsideHook

\* delete from tasks where id = ...
DeleteTaskRow(c) ==
  /\ c \in InFlight("deleteTask", "sent")
  /\ \/ /\ now < limits.writes
        /\ c.id \in DOMAIN dbTasks
        /\ dbTasks' = [i \in DOMAIN dbTasks \ {c.id} |-> dbTasks[i]]
        /\ Emit("DELETE", dbTasks[c.id])
        /\ now' = now + 1
        /\ calls' = (calls \ {c}) \cup {Answered(c, Ok(<<>>))}
     \/ /\ c.id \notin DOMAIN dbTasks
        /\ calls' = (calls \ {c}) \cup {Answered(c, Ok(<<>>))}
        /\ UNCHANGED <<dbTasks, now, rtQueue, rtLost>>
  /\ UNCHANGED <<rtSeen, subscribed, tasks, categories, loading, error, effectPc,
                 loadTimer, timers, joins, nCalls, results, nFailures>>
  /\ UNCHANGED outsideHook

\* the network fails request c before it reaches the database
RequestFails(c, e) ==
  /\ c \in calls /\ c.phase = "sent"
  /\ nFailures < limits.failures
  /\ nFailures' = nFailures + 1
  /\ calls' = (calls \ {c}) \cup Response(c, Fail(e))
  /\ UNCHANGED <<dbTasks, now, rtQueue, rtSeen, rtLost, subscribed, tasks, categories,
                 loading, error, effectPc, loadTimer, timers, joins, nCalls, results>>
  /\ UNCHANGED outsideHook

\* ------------------------------------------------------------- other clients
\* Row level security leaves the user's rows writable by the user alone, so the
\* other clients are the same user's other sessions.
RemoteInsert(d) ==
  /\ now < limits.writes
  /\ LET row == NewTaskRow([user_id |-> User] @@ d, now + 1)
     IN dbTasks' = (now + 1 :> row) @@ dbTasks /\ Emit("INSERT", row)
  /\ now' = now + 1
  /\ UNCHANGED <<rtSeen, subscribed, tasks, categories, loading, error, effectPc,
                 loadTimer, calls, timers, joins, nCalls, results, nFailures>>
  /\ UNCHANGED outsideHook

RemoteUpdate(id, u) ==
  /\ now < limits.writes
  /\ id \in DOMAIN dbTasks
  /\ LET row == UpdatedTaskRow(dbTasks[id], u, now + 1)
     IN dbTasks' = [dbTasks EXCEPT ![id] = row] /\ Emit("UPDATE", row)
  /\ now' = now + 1
  /\ UNCHANGED <<rtSeen, subscribed, tasks, categories, loading, error, effectPc,
                 loadTimer, calls, timers, joins, nCalls, results, nFailures>>
  /\ UNCHANGED outsideHook

RemoteDelete(id) ==
  /\ now < limits.writes
  /\ id \in DOMAIN dbTasks
  /\ dbTasks' = [i \in DOMAIN dbTasks \ {id} |-> dbTasks[i]]
  /\ Emit("DELETE", dbTasks[id])
  /\ now' = now + 1
  /\ UNCHANGED <<rtSeen, subscribed, tasks, categories, loading, error, effectPc,
                 loadTimer, calls, timers, joins, nCalls, results, nFailures>>
  /\ UNCHANGED outsideHook

\* ------------------------------------------------------------- the effect and the fetches
\* useEffect(..., [user]) with a user: loadData up to its first await
LoadData ==
  /\ effectPc = "mount"
  /\ effectPc' = "loading"
  /\ loading' = TRUE
  /\ error' = NULL
  /\ loadTimer' = TRUE
  /\ calls' = calls \cup {Call(0, "fetchTasks", 0, NoArg, 0, FALSE),
                          Call(0, "fetchCategories", 0, NoArg, 0, FALSE)}
  /\ joins' = joins \cup {[owner |-> 0, left |-> {"fetchTasks", "fetchCategories"},
                           settled |-> FALSE]}
  /\ UNCHANGED <<dbTasks, now, rtQueue, rtSeen, rtLost, subscribed, tasks, categories,
                 timers, nCalls, results, nFailures>>
  /\ UNCHANGED outsideHook

\* the timeout loadData arms for 15 s
LoadTimeout ==
  /\ loadTimer
  /\ loadTimer' = FALSE
  /\ loading' = FALSE
  /\ error' = "Taking longer than expected to load. Please check your connection and try again."
  /\ UNCHANGED <<dbTasks, now, rtQueue, rtSeen, rtLost, subscribed, tasks, categories,
                 effectPc, calls, timers, joins, nCalls, results, nFailures>>
  /\ UNCHANGED outsideHook

\* refreshData up to its first await
RefreshData ==
  /\ effectPc # "mount"
  /\ nCalls < limits.calls
  /\ nCalls' = nCalls + 1
  /\ loading' = TRUE
  /\ calls' = calls \cup {Call(nCalls + 1, "fetchTasks", 0, NoArg, nCalls + 1, FALSE),
                          Call(nCalls + 1, "fetchCategories", 0, NoArg, nCalls + 1, FALSE)}
  /\ joins' = joins \cup {[owner |-> nCalls + 1, left |-> {"fetchTasks", "fetchCategories"},
                           settled |-> FALSE]}
  /\ UNCHANGED <<dbTasks, now, rtQueue, rtSeen, rtLost, subscribed, tasks, categories,
                 error, effectPc, loadTimer, timers, results, nFailures>>
  /\ UNCHANGED outsideHook

JoinOf(c) == CHOOSE j \in joins : j.owner = c.owner

\* the join after fetch c of it has ended
JoinAfter(c) ==
  LET j == JoinOf(c)
  IN [j EXCEPT !.left = j.left \ {c.op},
               !.settled = j.settled \/ ~c.res.ok \/ j.left = {c.op}]

\* a Promise.all that settles with the first of its promises to end
SettlesAtFirst(c) == ~JoinOf(c).settled

\* Promise.all settles with c: it had not settled, and c failed or was the last one
Settles(c) == ~JoinOf(c).settled /\ JoinAfter(c).settled

\* the message of the Error a failed fetchTasks / fetchCategories throws
Thrown(c) ==
  IF c.res.err.isError THEN getErrorMessage(c.res.err)
  ELSE IF c.op = "fetchTasks" THEN "Unable to load your tasks"
  ELSE "Unable to load categories"

\* What follows the await of Promise.all once fetch c has ended. loadData (owner 0):
\* setupRealtimeSubscription on success, setError on failure, clearTimeout and
\* setLoading(false) on both. refreshData: setError on failure, setLoading(false).
Continue(c) ==
  /\ joins' = (joins \ {JoinOf(c)}) \cup
              (IF JoinAfter(c).left = {} THEN {} ELSE {JoinAfter(c)})
  /\ IF ~Settles(c)
       THEN UNCHANGED <<loading, error, effectPc, loadTimer, subscribed, results>>
     ELSE IF c.owner = 0
       THEN /\ loadTimer' = FALSE
            /\ loading' = FALSE
            /\ effectPc' = IF c.res.ok THEN "loaded" ELSE "failed"
            /\ subscribed' = (subscribed \/ c.res.ok)
            /\ error' = IF c.res.ok THEN error ELSE Thrown(c)
            /\ UNCHANGED results
     ELSE /\ loading' = FALSE
          /\ error' = IF c.res.ok THEN error
                      ELSE getErrorMessage([message |-> Thrown(c), isError |-> TRUE])
          /\ results' = results \cup
               {[tag |-> c.owner, op |-> "refreshData", id |-> 0, end |-> "returned"]}
          /\ UNCHANGED <<effectPc, loadTimer, subscribed>>

\* fetchTasks after its last await: setTasks(data || []), or throw
FetchTasksDone(c) ==
  /\ c \in InFlight("fetchTasks", "answered")
  /\ calls' = calls \ {c}
  /\ tasks' = IF c.res.ok THEN c.res.data ELSE tasks
  /\ Continue(c)
  /\ UNCHANGED <<dbTasks, now, rtQueue, rtSeen, rtLost, categories, timers, nCalls, nFailures>>
  /\ UNCHANGED outsideHook

\* fetchCategories after its await: setCategories(data || []), or throw
FetchCategoriesDone(c) ==
  /\ c \in InFlight("fetchCategories", "answered")
  /\ calls' = calls \ {c}
  /\ categories' = IF c.res.ok THEN c.res.data ELSE categories
  /\ Continue(c)
  /\ UNCHANGED <<dbTasks, now, rtQueue, rtSeen, rtLost, tasks, timers, nCalls, nFailures>>
  /\ UNCHANGED outsideHook

\* useEffect(..., [error]): setTimeout(() => setError(null), 5000)
ClearError ==
  /\ error # NULL
  /\ error' = NULL
  /\ UNCHANGED <<dbTasks, now, rtQueue, rtSeen, rtLost, subscribed, tasks, categories,
                 loading, effectPc, loadTimer, calls, timers, joins, nCalls, results, nFailures>>
  /\ UNCHANGED outsideHook

\* ------------------------------------------------------------- real-time handlers
\* the channel hands the oldest event to its handler
Oldest == rtQueue[1]

\* handleRealtimeInsert up to its await
HandleRealtimeInsert ==
  /\ rtQueue # <<>> /\ Oldest.type = "INSERT"
  /\ rtQueue' = Tail(rtQueue)
  /\ rtSeen' = rtSeen \cup {Oldest}
  /\ calls' = IF Oldest.user_id # User THEN calls
              ELSE calls \cup {Call(Oldest.seq, "rtInsert", Oldest.id, NoArg, 0, FALSE)}
  /\ UNCHANGED <<dbTasks, now, rtLost, subscribed, tasks, categories, loading, error,
                 effectPc, loadTimer, timers, joins, nCalls, results, nFailures>>
  /\ UNCHANGED outsideHook

\* handleRealtimeInsert without its check for an existing entry
InsertedByRealtimeUnchecked(prev, data) == <<data>> \o prev

\* the updater handleRealtimeInsert passes to setTasks
InsertedByRealtime(prev, data) ==
  IF Exists(prev, data.id) THEN prev ELSE <<data>> \o prev

\* handleRealtimeInsert after its await
RealtimeInsertDone(c) ==
  /\ c \in InFlight("rtInsert", "answered")
  /\ calls' = calls \ {c}
  /\ tasks' = IF c.res.ok /\ c.res.data # <<>>
                THEN InsertedByRealtime(tasks, c.res.data[1])
              ELSE tasks
  /\ UNCHANGED <<dbTasks, now, rtQueue, rtSeen, rtLost, subscribed, categories, loading,
                 error, effectPc, loadTimer, timers, joins, nCalls, results, nFailures>>
  /\ UNCHANGED outsideHook

\* handleRealtimeUpdate up to its await
HandleRealtimeUpdate ==
  /\ rtQueue # <<>> /\ Oldest.type = "UPDATE"
  /\ rtQueue' = Tail(rtQueue)
  /\ rtSeen' = rtSeen \cup {Oldest}
  /\ calls' = IF Oldest.user_id # User THEN calls
              ELSE calls \cup {Call(Oldest.seq, "rtUpdate", Oldest.id, NoArg, 0, FALSE)}
  /\ UNCHANGED <<dbTasks, now, rtLost, subscribed, tasks, categories, loading, error,
                 effectPc, loadTimer, timers, joins, nCalls, results, nFailures>>
  /\ UNCHANGED outsideHook

\* handleRealtimeUpdate after its await
RealtimeUpdateDone(c) ==
  /\ c \in InFlight("rtUpdate", "answered")
  /\ calls' = calls \ {c}
  /\ tasks' = IF c.res.ok /\ c.res.data # <<>>
                THEN Replaced(tasks, c.res.data[1])
              ELSE tasks
  /\ UNCHANGED <<dbTasks, now, rtQueue, rtSeen, rtLost, subscribed, categories, loading,
                 error, effectPc, loadTimer, timers, joins, nCalls, results, nFailures>>
  /\ UNCHANGED outsideHook

\* handleRealtimeDelete
HandleRealtimeDelete ==
  /\ rtQueue # <<>> /\ Oldest.type = "DELETE"
  /\ rtQueue' = Tail(rtQueue)
  /\ rtSeen' = rtSeen \cup {Oldest}
  /\ tasks' = IF Oldest.user_id # User THEN tasks ELSE Without(tasks, Oldest.id)
  /\ UNCHANGED <<dbTasks, now, rtLost, subscribed, categories, loading, error,
                 effectPc, loadTimer, calls, timers, joins, nCalls, results, nFailures>>
  /\ UNCHANGED outsideHook

\* the channel is slow or has failed: the oldest event never reaches the hook
RealtimeDrop ==
  /\ rtQueue # <<>>
  /\ rtQueue' = Tail(rtQueue)
  /\ rtLost' = rtLost \cup {Oldest}
  /\ UNCHANGED <<dbTasks, now, rtSeen, subscribed, tasks, categories, loading, error,
                 effectPc, loadTimer, calls, timers, joins, nCalls, results, nFailures>>
  /\ UNCHANGED outsideHook

\* ------------------------------------------------------------- createTask
\* createTask up to the first await of its first attempt
CreateTask(d) ==
  /\ effectPc # "mount"
  /\ nCalls < limits.calls
  /\ nCalls' = nCalls + 1
  /\ calls' = calls \cup {Call(nCalls + 1, "createTask", 0, d, 0, FALSE)}
  /\ UNCHANGED <<dbTasks, now, rtQueue, rtSeen, rtLost, subscribed, tasks, categories,
                 loading, error, effectPc, loadTimer, timers, joins, results, nFailures>>
  /\ UNCHANGED outsideHook

\* const delay = 1000 * Math.pow(2, attempt - 1)
Backoff(attempt) == 1000 * 2^(attempt - 1)

\* the catch of one attempt that gives up at the first failure
AttemptFailedGivesUp(c, e) ==
  /\ calls' = calls \ {c}
  /\ error' = IF e.isError THEN getErrorMessage(e) ELSE "Unable to create task"
  /\ results' = results \cup {[tag |-> c.tag, op |-> "createTask", id |-> 0, end |-> "threw"]}

\* the catch of one attempt with error e: give up after maxRetries, else back off
AttemptFailed(c, e) ==
  IF c.attempt = maxRetries
    THEN /\ calls' = calls \ {c}
         /\ error' = IF e.isError THEN getErrorMessage(e) ELSE "Unable to create task"
         /\ results' = results \cup {[tag |-> c.tag, op |-> "createTask", id |-> 0, end |-> "threw"]}
    ELSE /\ calls' = (calls \ {c}) \cup
                     {[c EXCEPT !.phase = "backoff", !.res = Fail(e),
                                !.delay = Backoff(c.attempt)]}
         /\ UNCHANGED <<error, results>>

\* the await of Promise.race ends with the insert's outcome
CreateTaskDone(c) ==
  /\ c \in InFlight("createTask", "answered")
  /\ IF c.res.ok
       THEN /\ calls' = calls \ {c}
            /\ timers' = timers \cup
                 {[tag |-> c.tag, kind |-> "create", id |-> c.res.data[1].id,
                   data |-> c.res.data]}
            /\ results' = results \cup
                 {[tag |-> c.tag, op |-> "createTask", id |-> c.res.data[1].id,
                   end |-> "returned"]}
            /\ UNCHANGED error
       ELSE AttemptFailed(c, c.res.err) /\ UNCHANGED timers
  /\ UNCHANGED <<dbTasks, now, rtQueue, rtSeen, rtLost, subscribed, tasks, categories,
                 loading, effectPc, loadTimer, joins, nCalls, nFailures>>
  /\ UNCHANGED outsideHook

\* the await of Promise.race ends with the 10 s timeout; the insert stays in flight
CreateTaskTimeout(c) ==
  /\ c \in InFlight("createTask", "sent") \cup InFlight("createTask", "answered")
  /\ nFailures < limits.failures
  /\ nFailures' = nFailures + 1
  /\ LET e == [message |-> "Creating task is taking longer than expected. Please try again.",
               isError |-> TRUE]
         left == IF c.phase = "sent" THEN {[c EXCEPT !.op = "abandoned"]} ELSE {}
     IN IF c.attempt = maxRetries
          THEN /\ calls' = (calls \ {c}) \cup left
               /\ error' = getErrorMessage(e)
               /\ results' = results \cup
                    {[tag |-> c.tag, op |-> "createTask", id |-> 0, end |-> "threw"]}
          ELSE /\ calls' = (calls \ {c}) \cup left \cup
                           {[c EXCEPT !.phase = "backoff", !.res = Fail(e),
                                      !.delay = Backoff(c.attempt)]}
               /\ UNCHANGED <<error, results>>
  /\ UNCHANGED <<dbTasks, now, rtQueue, rtSeen, rtLost, subscribed, tasks, categories,
                 loading, effectPc, loadTimer, timers, joins, nCalls>>
  /\ UNCHANGED outsideHook

\* the backoff delay of 1000 * 2^(attempt-1) ms has passed: the next attempt
CreateTaskRetry(c) ==
  /\ c \in InFlight("createTask", "backoff")
  /\ calls' = (calls \ {c}) \cup
              {[c EXCEPT !.phase = "sent", !.attempt = c.attempt + 1, !.res = NoRes,
                         !.delay = 0]}
  /\ UNCHANGED <<dbTasks, now, rtQueue, rtSeen, rtLost, subscribed, tasks, categories,
                 loading, error, effectPc, loadTimer, timers, joins, nCalls, results, nFailures>>
  /\ UNCHANGED outsideHook

\* the fallback of createTask adding at the end of the list
InsertedByFallbackAtEnd(prev, data) ==
  IF ~Exists(prev, data.id) THEN prev \o <<data>> ELSE prev

\* the updater the fallback of createTask passes to setTasks
InsertedByFallback(prev, data) ==
  IF ~Exists(prev, data.id) THEN <<data>> \o prev ELSE prev

\* the 300 ms fallback of createTask
CreateFallback(t) ==
  /\ t \in timers /\ t.kind = "create"
  /\ timers' = timers \ {t}
  /\ tasks' = InsertedByFallback(tasks, t.data[1])
  /\ UNCHANGED <<dbTasks, now, rtQueue, rtSeen, rtLost, subscribed, categories, loading,
                 error, effectPc, loadTimer, calls, joins, nCalls, results, nFailures>>
  /\ UNCHANGED outsideHook

\* ------------------------------------------------------------- updateTask, toggleTaskStatus
\* updateTask(id, updates) up to its await, as the edit form calls it
UpdateTask(id, u) ==
  /\ effectPc # "mount"
  /\ nCalls < limits.calls
  /\ id \in Ids(tasks)
  /\ nCalls' = nCalls + 1
  /\ calls' = calls \cup {Call(nCalls + 1, "updateTask", id, u, 0, FALSE)}
  /\ UNCHANGED <<dbTasks, now, rtQueue, rtSeen, rtLost, subscribed, tasks, categories,
                 loading, error, effectPc, loadTimer, timers, joins, results, nFailures>>
  /\ UNCHANGED outsideHook

\* a toggle between 'todo' and 'completed' that leaves the other statuses alone
ToggledInPlace(status) ==
  IF status = "completed" THEN "todo"
  ELSE IF status = "todo" THEN "completed"
  ELSE status

\* task.status === 'completed' ? 'todo' : 'completed'
Toggled(status) == IF status = "completed" THEN "todo" ELSE "completed"

\* the updater without its test of the id
WithStatusEverywhere(prev, id, status) ==
  [i \in DOMAIN prev |-> [prev[i] EXCEPT !.status = status]]

\* prev.map(t => t.id === id ? { ...t, status } : t)
WithStatus(prev, id, status) ==
  [i \in DOMAIN prev |->
     IF prev[i].id = id THEN [prev[i] EXCEPT !.status = status] ELSE prev[i]]

\* tasks.find(t => t.id === id)
Find(list, id) == list[CHOOSE i \in DOMAIN list :
                         list[i].id = id /\ \A j \in DOMAIN list : list[j].id = id => i <= j]

\* toggleTaskStatus(id) up to the await inside updateTask(id, {status}, true)
ToggleTaskStatus(id) ==
  /\ effectPc # "mount"
  /\ nCalls < limits.calls
  /\ nCalls' = nCalls + 1
  /\ IF ~Exists(tasks, id)
       THEN /\ results' = results \cup
                 {[tag |-> nCalls + 1, op |-> "toggleTaskStatus", id |-> id,
                   end |-> "returned"]}
            /\ UNCHANGED <<tasks, calls>>
       ELSE LET task == Find(tasks, id)
                c == Call(nCalls + 1, "updateTask", id,
                          [status |-> Toggled(task.status)], 0, TRUE)
            IN /\ tasks' = WithStatus(tasks, id, Toggled(task.status))
               /\ calls' = calls \cup {[c EXCEPT !.revert = task.status]}
               /\ UNCHANGED results
  /\ UNCHANGED <<dbTasks, now, rtQueue, rtSeen, rtLost, subscribed, categories,
                 loading, error, effectPc, loadTimer, timers, joins, nFailures>>
  /\ UNCHANGED outsideHook

\* updateTask after its await; with revert set, the catch of toggleTaskStatus follows
UpdateTaskDone(c) ==
  /\ c \in InFlight("updateTask", "answered")
  /\ calls' = calls \ {c}
  /\ timers' = IF c.res.ok /\ ~c.skip
                 THEN timers \cup {[tag |-> c.tag, kind |-> "update",
                                    id |-> c.res.data[1].id, data |-> c.res.data]}
               ELSE timers
  /\ error' = IF c.res.ok THEN error
              ELSE IF c.revert # NULL THEN "Failed to update task status"
              ELSE IF c.res.err.isError THEN c.res.err.message
              ELSE "Failed to update task"
  /\ tasks' = IF ~c.res.ok /\ c.revert # NULL THEN WithStatus(tasks, c.id, c.revert)
              ELSE tasks
  /\ results' = results \cup
       {[tag |-> c.tag, id |-> c.id,
         op |-> IF c.revert # NULL THEN "toggleTaskStatus" ELSE "updateTask",
         end |-> IF c.res.ok \/ c.revert # NULL THEN "returned" ELSE "threw"]}
  /\ UNCHANGED <<dbTasks, now, rtQueue, rtSeen, rtLost, subscribed, categories, loading,
                 effectPc, loadTimer, joins, nCalls, nFailures>>
  /\ UNCHANGED outsideHook

\* the entry the 300 ms fallback of updateTask leaves in place of task
FallbackEntry(task, data) ==
  LET statusMatches == task.status = data.status
      titleMatches == task.title = data.title
      descMatches == task.description = data.description
  IN IF statusMatches /\ titleMatches /\ descMatches THEN task ELSE data

\* the updater the fallback of updateTask passes to setTasks
UpdatedByFallback(prev, data) ==
  [i \in DOMAIN prev |->
     IF prev[i].id = data.id THEN FallbackEntry(prev[i], data) ELSE prev[i]]

\* the 300 ms fallback of updateTask
UpdateFallback(t) ==
  /\ t \in timers /\ t.kind = "update"
  /\ timers' = timers \ {t}
  /\ tasks' = UpdatedByFallback(tasks, t.data[1])
  /\ UNCHANGED <<dbTasks, now, rtQueue, rtSeen, rtLost, subscribed, categories, loading,
                 error, effectPc, loadTimer, calls, joins, nCalls, results, nFailures>>
  /\ UNCHANGED outsideHook

\* ------------------------------------------------------------- deleteTask
\* deleteTask(id) up to its await
DeleteTask(id) ==
  /\ effectPc # "mount"
  /\ nCalls < limits.calls
  /\ id \in Ids(tasks)
  /\ nCalls' = nCalls + 1
  /\ calls' = calls \cup {Call(nCalls + 1, "deleteTask", id, NoArg, 0, FALSE)}
  /\ UNCHANGED <<dbTasks, now, rtQueue, rtSeen, rtLost, subscribed, tasks, categories,
                 loading, error, effectPc, loadTimer, timers, joins, results, nFailures>>
  /\ UNCHANGED outsideHook

\* deleteTask after its await
DeleteTaskDone(c) ==
  /\ c \in InFlight("deleteTask", "answered")
  /\ calls' = calls \ {c}
  /\ timers' = IF c.res.ok
                 THEN timers \cup {[tag |-> c.tag, kind |-> "delete", id |-> c.id,
                                    data |-> <<>>]}
               ELSE timers
  /\ error' = IF c.res.ok THEN error
              ELSE IF c.res.err.isError THEN c.res.err.message
              ELSE "Failed to delete task"
  /\ results' = results \cup
       {[tag |-> c.tag, op |-> "deleteTask", id |-> c.id,
         end |-> IF c.res.ok THEN "returned" ELSE "threw"]}
  /\ UNCHANGED <<dbTasks, now, rtQueue, rtSeen, rtLost, subscribed, tasks, categories,
                 loading, effectPc, loadTimer, joins, nCalls, nFailures>>
  /\ UNCHANGED outsideHook

\* the fallback of deleteTask with its test inverted
DeletedByFallbackInverted(prev, id) ==
  IF ~Exists(prev, id) THEN Without(prev, id) ELSE prev

\* the updater the fallback of deleteTask passes to setTasks
DeletedByFallback(prev, id) ==
  IF Exists(prev, id) THEN Without(prev, id) ELSE prev

\* the 1000 ms fallback of deleteTask
DeleteFallback(t) ==
  /\ t \in timers /\ t.kind = "delete"
  /\ timers' = timers \ {t}
  /\ tasks' = DeletedByFallback(tasks, t.id)
  /\ UNCHANGED <<dbTasks, now, rtQueue, rtSeen, rtLost, subscribed, categories, loading,
                 error, effectPc, loadTimer, calls, joins, nCalls, results, nFailures>>
  /\ UNCHANGED outsideHook

\* ------------------------------------------------------------- the schema
\* auth.users: the accounts
Uids == {"u1", "u2"}

Email(uid) == uid \o "@example.com"

Tables == {"users", "categories", "tasks"}

Range(f) == {f[i] : i \in DOMAIN f}

TableRows(table) ==
  CASE table = "users" -> Range(dbUsers)
    [] table = "categories" -> Range(dbCategories)
    [] OTHER -> Range(dbTasks)

\* the column the policies of a table compare with auth.uid()
OwnerOf(table, row) == IF table = "users" THEN row.id ELSE row.user_id

\* CREATE POLICY ... FOR verb exists; with row level security enabled a verb
\* without a policy reaches no row
HasPolicy(table, verb) == ~(table = "users" /\ verb = "DELETE")

\* USING (auth.uid() = id) or USING (auth.uid() = user_id): the existing rows a
\* SELECT, UPDATE or DELETE of session uid reaches
Using(table, verb, uid, row) ==
  HasPolicy(table, verb) /\ verb # "INSERT" /\ uid = OwnerOf(table, row)

\* WITH CHECK on the new row: the INSERT policies state it; an UPDATE policy
\* that states none checks the new row against its USING expression
WithCheck(table, verb, uid, row) ==
  HasPolicy(table, verb) /\ verb \in {"INSERT", "UPDATE"} /\ uid = OwnerOf(table, row)

\* no statement yet
NoOp == [actor |-> NULL, table |-> NULL, verb |-> NULL, rows |-> {}, error |-> NULL]

\* statement carried out on rows
Did(a, table, verb, rows) ==
  [actor |-> a, table |-> table, verb |-> verb, rows |-> rows, error |-> NULL]

\* statement rejected: nothing read, nothing written
Refused(a, table, verb, err) ==
  [actor |-> a, table |-> table, verb |-> verb, rows |-> {}, error |-> err]

\* createUserProfile's row: insert into users (id, email, full_name)
ProfileOf(uid) == [id |-> uid, email |-> Email(uid), full_name |-> NULL]

DefaultCategories ==
  << [name |-> "Personal", color |-> "#667eea"],
     [name |-> "Work", color |-> "#f093fb"],
     [name |-> "Shopping", color |-> "#4facfe"],
     [name |-> "Health", color |-> "#43e97b"] >>

\* create_default_categories with the last row of its VALUES list missing
create_default_categories_Short(new, t) ==
  [id \in {10 * t + k : k \in 1..3} |->
     [id |-> id, user_id |-> new.id,
      name |-> DefaultCategories[id - 10 * t].name,
      color |-> DefaultCategories[id - 10 * t].color]]

\* trigger create_user_default_categories, AFTER INSERT ON users: the four rows
\* it inserts at time t, gen_random_uuid() giving the fresh numbers 10t+1 .. 10t+4
create_default_categories(new, t) ==
  [id \in {10 * t + k : k \in DOMAIN DefaultCategories} |->
     [id |-> id, user_id |-> new.id,
      name |-> DefaultCategories[id - 10 * t].name,
      color |-> DefaultCategories[id - 10 * t].color]]

\* ------------------------------------------------------------- rendering
\* AppContent with its two tests in the other order
AppContentUserFirst(user, isLoading) ==
  IF user = NULL THEN "AuthPage"
  ELSE IF isLoading THEN "Loading"
  ELSE "TaskManager"

\* AppContent: what it returns for the values useAuth() gives it
AppContent(user, isLoading) ==
  IF isLoading THEN "Loading"
  ELSE IF user = NULL THEN "AuthPage"
  ELSE "TaskManager"

\* ProtectedRoute: what it returns for the values useAuth() gives it
ProtectedRoute(user, isLoading) ==
  IF isLoading THEN "Loading"
  ELSE IF user = NULL THEN "AuthPage"
  ELSE "children"

\* ------------------------------------------------------------- specification
\* the AuthProvider as mounted: getSession() called, the timeout armed, the
\* first render done; the client holds the session it stored, or none
AuthMounted ==
  /\ authSession = NULL
  /\ authUser = NULL
  /\ authLoading = TRUE
  /\ authPc = "pending"
  /\ authToken \in {User, NULL}
  /\ authTimer = TRUE
  /\ pendingSets = <<>>
  /\ handlers = {}
  /\ handled = {}
  /\ reached = {}
  /\ screen = AppContent(NULL, TRUE)
  /\ route = ProtectedRoute(NULL, TRUE)
  /\ nAuthEvents = 0
  /\ nAuthFailures = 0

\* no service worker is registered
NoWorker ==
  /\ swCaches = <<>>
  /\ swRequests = <<>>
  /\ swPuts = {}
  /\ swWorker = [state |-> "none", cacheNames |-> {}, pending |-> {}]

\* a session of the signed-in user exists and the provider has settled
AuthSettled ==
  /\ authSession = User
  /\ authUser = User
  /\ authLoading = FALSE
  /\ authPc = "settled"
  /\ authToken = User
  /\ authTimer = FALSE
  /\ pendingSets = <<>>
  /\ handlers = {}
  /\ handled = {User}
  /\ reached = {User}
  /\ screen = AppContent(User, FALSE)
  /\ route = ProtectedRoute(User, FALSE)
  /\ nAuthEvents = 0
  /\ nAuthFailures = 0

\* the bounds of a behaviour
Limits(nc, nw, nf) == [calls |-> nc, writes |-> nw, failures |-> nf]

\* nothing has called the hook and no channel exists
HookFresh ==
  /\ rtQueue = <<>>
  /\ rtSeen = {}
  /\ rtLost = {}
  /\ subscribed = FALSE
  /\ tasks = <<>>
  /\ categories = <<>>
  /\ loading = TRUE
  /\ error = NULL
  /\ effectPc = "mount"
  /\ loadTimer = FALSE
  /\ calls = {}
  /\ timers = {}
  /\ joins = {}
  /\ nCalls = 0
  /\ nFailures = 0
  /\ results = {}
  /\ effect = [i \in {"TaskManager", "AuthDebug"} |->
                 [state |-> "none", cleanup |-> FALSE, pending |-> FALSE]]
  /\ loads = [i \in {"TaskManager", "AuthDebug"} |-> <<>>]
  /\ channels = {}
  /\ subscriptionRef = [i \in {"TaskManager", "AuthDebug"} |-> 0]

HookUnmounted == HookFresh /\ limits = Limits(MaxCalls, MaxWrites, MaxFailures)

\* the hook about to mount for a signed-in user whose profile and default
\* categories exist and who has no task yet
InitHook ==
  /\ HookUnmounted
  /\ AuthSettled
  /\ NoWorker
  /\ dbUsers = (User :> ProfileOf(User))
  /\ dbCategories = create_default_categories(ProfileOf(User), 0)
  /\ dbTasks = <<>>
  /\ now = 0
  /\ lastOp = NoOp
  /\ appOnly = {}

TaskIds == 1..MaxWrites

Database ==
  \/ \E c \in calls : SelectTasks(c)
  \/ \E c \in calls : SelectCategories(c)
  \/ \E c \in calls : SelectTaskById(c)
  \/ \E c \in calls : InsertTask(c)
  \/ \E c \in calls : UpdateTaskRow(c)
  \/ \E c \in calls : DeleteTaskRow(c)
  \/ \E c \in calls, e \in RequestErrors : RequestFails(c, e)

OtherClients ==
  \/ \E d \in CreateInputs : RemoteInsert(d)
  \/ \E id \in TaskIds, u \in UpdateInputs : RemoteUpdate(id, u)
  \/ \E id \in TaskIds : RemoteDelete(id)

Realtime ==
  \/ HandleRealtimeInsert
  \/ HandleRealtimeUpdate
  \/ HandleRealtimeDelete
  \/ RealtimeDrop
  \/ \E c \in calls : RealtimeInsertDone(c)
  \/ \E c \in calls : RealtimeUpdateDone(c)

Loading ==
  \/ LoadData
  \/ LoadTimeout
  \/ \E c \in calls : FetchTasksDone(c)
  \/ \E c \in calls : FetchCategoriesDone(c)

Fallbacks ==
  \/ \E t \in timers : CreateFallback(t)
  \/ \E t \in timers : UpdateFallback(t)
  \/ \E t \in timers : DeleteFallback(t)

Ui ==
  \/ RefreshData
  \/ ClearError
  \/ \E d \in CreateInputs : CreateTask(d)
  \/ \E c \in calls : CreateTaskDone(c)
  \/ \E c \in calls : CreateTaskTimeout(c)
  \/ \E c \in calls : CreateTaskRetry(c)
  \/ \E id \in TaskIds, u \in UpdateInputs : UpdateTask(id, u)
  \/ \E id \in TaskIds : ToggleTaskStatus(id)
  \/ \E c \in calls : UpdateTaskDone(c)
  \/ \E id \in TaskIds : DeleteTask(id)
  \/ \E c \in calls : DeleteTaskDone(c)

NextHook == Database \/ OtherClients \/ Realtime \/ Loading \/ Fallbacks \/ Ui

SpecHook == InitHook /\ [][NextHook]_vars

\* a timer that is due fires
SpecHookFair == SpecHook /\ WF_vars(Fallbacks)

\* the hook while nothing but other clients writes and the channel delivers
NextRemote ==
  \/ LoadData
  \/ LoadTimeout
  \/ ClearError
  \/ \E c \in calls : SelectTasks(c)
  \/ \E c \in calls : SelectCategories(c)
  \/ \E c \in calls : FetchTasksDone(c)
  \/ \E c \in calls : FetchCategoriesDone(c)
  \/ \E d \in CreateInputs : RemoteInsert(d)
  \/ \E id \in TaskIds, u \in UpdateInputs : RemoteUpdate(id, u)
  \/ \E id \in TaskIds : RemoteDelete(id)
  \/ HandleRealtimeInsert
  \/ HandleRealtimeUpdate
  \/ HandleRealtimeDelete
  \/ \E c \in calls : SelectTaskById(c)
  \/ \E c \in calls : RealtimeInsertDone(c)
  \/ \E c \in calls : RealtimeUpdateDone(c)

SpecRemote == InitHook /\ [][NextRemote]_vars

\* the hook about to mount for one call of createTask, with a network that
\* fails more often
InitCreate ==
  /\ HookFresh
  /\ limits = Limits(1, MaxWrites, MaxCreateFailures)
  /\ AuthSettled
  /\ NoWorker
  /\ dbUsers = (User :> ProfileOf(User))
  /\ dbCategories = create_default_categories(ProfileOf(User), 0)
  /\ dbTasks = <<>>
  /\ now = 0
  /\ lastOp = NoOp
  /\ appOnly = {}

\* createTask on an unreliable network
NextCreate ==
  \/ LoadData
  \/ ClearError
  \/ \E c \in calls : SelectTasks(c)
  \/ \E c \in calls : SelectCategories(c)
  \/ \E c \in calls : FetchTasksDone(c)
  \/ \E c \in calls : FetchCategoriesDone(c)
  \/ \E d \in CreateInputs : CreateTask(d)
  \/ \E c \in calls : InsertTask(c)
  \/ \E c \in calls, e \in RequestErrors : RequestFails(c, e)
  \/ \E c \in calls : CreateTaskDone(c)
  \/ \E c \in calls : CreateTaskTimeout(c)
  \/ \E c \in calls : CreateTaskRetry(c)
  \/ \E t \in timers : CreateFallback(t)
  \/ HandleRealtimeInsert
  \/ RealtimeDrop
  \/ \E c \in calls : SelectTaskById(c)
  \/ \E c \in calls : RealtimeInsertDone(c)

SpecCreate == InitCreate /\ [][NextCreate]_vars

\* the hook about to mount for a user who has one task already
InitUpdate ==
  /\ HookFresh
  /\ limits = Limits(MaxCalls, MaxWrites + 1, 0)
  /\ AuthSettled
  /\ NoWorker
  /\ dbUsers = (User :> ProfileOf(User))
  /\ dbCategories = create_default_categories(ProfileOf(User), 0)
  /\ dbTasks = (1 :> NewTaskRow([user_id |-> User] @@ [title |-> "a", priority |-> "medium"], 1))
  /\ now = 1
  /\ lastOp = NoOp
  /\ appOnly = {}

\* updateTask from the edit form while another session of the user edits too
NextUpdate ==
  \/ LoadData
  \/ \E c \in calls : SelectTasks(c)
  \/ \E c \in calls : SelectCategories(c)
  \/ \E c \in calls : FetchTasksDone(c)
  \/ \E c \in calls : FetchCategoriesDone(c)
  \/ \E id \in TaskIds, u \in UpdateInputs : UpdateTask(id, u)
  \/ \E c \in calls : UpdateTaskRow(c)
  \/ \E c \in calls : UpdateTaskDone(c)
  \/ \E t \in timers : UpdateFallback(t)
  \/ \E id \in TaskIds, u \in UpdateInputs : RemoteUpdate(id, u)
  \/ HandleRealtimeUpdate
  \/ RealtimeDrop
  \/ \E c \in calls : SelectTaskById(c)
  \/ \E c \in calls : RealtimeUpdateDone(c)

SpecUpdate == InitUpdate /\ [][NextUpdate]_vars

\* a task the user made some time ago, titled by the status it has by now
TaskInStatus(id, status) ==
  [NewTaskRow([user_id |-> User] @@ [title |-> status, priority |-> "medium"], id)
     EXCEPT !.status = status,
            !.completed_at = IF status = "completed" THEN id ELSE NoTime]

\* the hook about to mount for a user who has two tasks, the first in any status
InitToggle ==
  /\ HookFresh
  /\ limits = Limits(MaxToggles, 2 + MaxToggles, 1)
  /\ AuthSettled
  /\ NoWorker
  /\ dbUsers = (User :> ProfileOf(User))
  /\ dbCategories = create_default_categories(ProfileOf(User), 0)
  /\ \E status \in TaskStatus :
       dbTasks = (1 :> TaskInStatus(1, status)) @@ (2 :> TaskInStatus(2, "todo"))
  /\ now = 2
  /\ lastOp = NoOp
  /\ appOnly = {}

\* the check boxes of the task list
NextToggle ==
  \/ LoadData
  \/ ClearError
  \/ \E c \in calls : SelectTasks(c)
  \/ \E c \in calls : SelectCategories(c)
  \/ \E c \in calls : FetchTasksDone(c)
  \/ \E c \in calls : FetchCategoriesDone(c)
  \/ \E id \in TaskIds : ToggleTaskStatus(id)
  \/ \E c \in calls : UpdateTaskRow(c)
  \/ \E c \in calls, e \in RequestErrors : RequestFails(c, e)
  \/ \E c \in calls : UpdateTaskDone(c)
  \/ HandleRealtimeUpdate
  \/ RealtimeDrop
  \/ \E c \in calls : SelectTaskById(c)
  \/ \E c \in calls : RealtimeUpdateDone(c)

SpecToggle == InitToggle /\ [][NextToggle]_vars

\* the loading flag: the initial load and refreshData on a network that may
\* fail a request or never answer it
NextLoad ==
  \/ LoadData
  \/ LoadTimeout
  \/ RefreshData
  \/ ClearError
  \/ \E c \in calls : SelectTasks(c)
  \/ \E c \in calls : SelectCategories(c)
  \/ \E c \in calls, e \in RequestErrors : RequestFails(c, e)
  \/ \E c \in calls : FetchTasksDone(c)
  \/ \E c \in calls : FetchCategoriesDone(c)

\* the effect runs, a timer that is due fires and a continuation whose promise
\* has settled runs; nothing makes the network answer
SpecLoad == InitHook /\ [][NextLoad]_vars /\ WF_vars(Loading)

\* ------------------------------------------------------------- the effect over renders
\* The components that call useTasks while the provider hands them a new user.
\* loadData, fetchTasks, fetchCategories and setupRealtimeSubscription are closures
\* of the render whose effect created them: each load keeps the user of that render.
\* subscriptionRef and the state setters belong to the instance of the hook. The
\* database is quiet here, and the provider's rendering is not followed.

\* the components that call useTasks(): TaskManager, and AuthDebug which
\* TaskManager renders. Each is taken as a component that mounts and unmounts
\* on its own.
Instances == {"TaskManager", "AuthDebug"}

\* the instance whose tasks, categories, loading and error the variables hold;
\* the state AuthDebug reads for its diagnostics is not followed
Shown == "TaskManager"

\* the account that is not signed in at first
Other == CHOOSE u \in Uids : u # User

\* what the effect's runs leave alone
outsideEffect ==
  <<dbTasks, now, rtQueue, rtSeen, rtLost, effectPc, loadTimer, calls, timers, joins,
    nCalls, results, schemaVars, authLoading, authPc, authTimer, pendingSets,
    handlers, handled, reached, screen, route, nAuthEvents, nAuthFailures, swVars,
    limits>>

\* the loads started so far
TotalLoads == Len(loads["TaskManager"]) + Len(loads["AuthDebug"])

\* select ... from table where user_id = u, sent with the session of uid: row
\* level security leaves the rows uid owns
RowsFor(table, uid, u) ==
  {r \in TableRows(table) : r.user_id = u /\ Using(table, "SELECT", uid, r)}

\* fetchTasks of a render with user u, answered to the session of uid
FetchedTasks(uid, u) == OrderDesc(RowsFor("tasks", uid, u))

\* fetchCategories of a render with user u: .order('name')
FetchedCategories(uid, u) ==
  LET rows == RowsFor("categories", uid, u)
      names == SelectSeq(DefaultCategoryNames, LAMBDA nm : \E r \in rows : r.name = nm)
  IN [k \in DOMAIN names |-> CHOOSE r \in rows : r.name = names[k]]

Fetches == {"fetchTasks", "fetchCategories"}

\* loadData of a render with user u, up to its await: the 15 s timer armed and
\* both fetches started
NewLoad(u) ==
  [user |-> u, timer |-> TRUE, settled |-> FALSE,
   fetches |-> [op \in Fetches |-> [phase |-> "sent", res |-> NoRes]]]

\* the body of the effect of instance i in a render with user u
EffectBody(i, u) ==
  /\ loads' = IF u = NULL THEN loads ELSE [loads EXCEPT ![i] = Append(@, NewLoad(u))]
  /\ IF i # Shown
       THEN UNCHANGED <<tasks, categories, loading, error>>
     ELSE IF u = NULL
       THEN /\ loading' = FALSE
            /\ tasks' = <<>>
            /\ categories' = <<>>
            /\ error' = NULL
     ELSE /\ loading' = TRUE
          /\ error' = NULL
          /\ UNCHANGED <<tasks, categories>>

\* the channel instance i holds in its subscriptionRef
Held(i) == {ch \in channels : ch.inst = i /\ ch.load = subscriptionRef[i]}

\* the cleanup function of the last run of instance i's effect; a run without a
\* user returned none
Cleanup(i) ==
  IF effect[i].cleanup /\ subscriptionRef[i] # 0
    THEN /\ channels' = channels \ Held(i)
         /\ subscriptionRef' = [subscriptionRef EXCEPT ![i] = 0]
    ELSE UNCHANGED <<channels, subscriptionRef>>

\* setupRealtimeSubscription that leaves the channel of subscriptionRef subscribed
SetupRealtimeSubscriptionKeepsOld(i, n, u) ==
  /\ channels' = channels \cup {[inst |-> i, load |-> n, filter |-> u]}
  /\ subscriptionRef' = [subscriptionRef EXCEPT ![i] = n]

\* setupRealtimeSubscription of instance i's render with user u, called by load n
SetupRealtimeSubscription(i, n, u) ==
  /\ channels' = (channels \ Held(i)) \cup {[inst |-> i, load |-> n, filter |-> u]}
  /\ subscriptionRef' = [subscriptionRef EXCEPT ![i] = n]

\* the component of instance i mounts: the effect runs for the first time
Mount(i) ==
  /\ effect[i].state = "none"
  /\ authUser # NULL => TotalLoads < MaxLoads
  /\ EffectBody(i, authUser)
  /\ effect' = [effect EXCEPT ![i] = [state |-> "mounted", cleanup |-> authUser # NULL,
                                      pending |-> FALSE]]
  /\ UNCHANGED <<channels, subscriptionRef, subscribed, nFailures,
                 authSession, authUser, authToken>>
  /\ UNCHANGED outsideEffect

\* the component mounts under <StrictMode> in development: React runs the effect,
\* its cleanup (subscriptionRef is still null) and the effect again
MountStrict(i) ==
  /\ effect[i].state = "none"
  /\ authUser # NULL
  /\ TotalLoads + 2 <= MaxLoads
  /\ loads' = [loads EXCEPT ![i] = @ \o <<NewLoad(authUser), NewLoad(authUser)>>]
  /\ IF i = Shown
       THEN loading' = TRUE /\ error' = NULL
     ELSE UNCHANGED <<loading, error>>
  /\ effect' = [effect EXCEPT ![i] = [state |-> "mounted", cleanup |-> TRUE,
                                      pending |-> FALSE]]
  /\ UNCHANGED <<tasks, categories, channels, subscriptionRef, subscribed, nFailures,
                 authSession, authUser, authToken>>
  /\ UNCHANGED outsideEffect

Mounted == {i \in Instances : effect[i].state = "mounted"}

\* onAuthStateChange hands the provider a session: another account has signed in,
\* the same account's token was refreshed (a new user object), or nobody is signed
\* in any more. The mounted components render again; the effects of the render
\* before have run.
UserChanges(u) ==
  /\ Mounted # {}
  /\ \A i \in Mounted : ~effect[i].pending
  /\ u # NULL \/ authUser # NULL
  /\ u # NULL => TotalLoads + Cardinality(Mounted) <= MaxLoads
  /\ authSession' = u
  /\ authUser' = u
  /\ authToken' = u
  /\ effect' = [i \in Instances |->
                  IF i \in Mounted THEN [effect[i] EXCEPT !.pending = TRUE] ELSE effect[i]]
  /\ UNCHANGED <<tasks, categories, loading, error, loads, channels, subscriptionRef,
                 subscribed, nFailures>>
  /\ UNCHANGED outsideEffect

\* [user] has changed for instance i: the cleanup of the last run, then the effect
EffectReruns(i) ==
  /\ effect[i].state = "mounted"
  /\ effect[i].pending
  /\ authUser # NULL => TotalLoads < MaxLoads
  /\ Cleanup(i)
  /\ EffectBody(i, authUser)
  /\ effect' = [effect EXCEPT ![i].cleanup = authUser # NULL, ![i].pending = FALSE]
  /\ subscribed' = (subscriptionRef'[Shown] # 0)
  /\ UNCHANGED <<nFailures, authSession, authUser, authToken>>
  /\ UNCHANGED outsideEffect

\* the component of instance i unmounts: the cleanup of the last run
Unmount(i) ==
  /\ effect[i].state = "mounted"
  /\ Cleanup(i)
  /\ effect' = [effect EXCEPT ![i] = [state |-> "unmounted", cleanup |-> FALSE,
                                      pending |-> FALSE]]
  /\ subscribed' = (subscriptionRef'[Shown] # 0)
  /\ UNCHANGED <<tasks, categories, loading, error, loads, nFailures,
                 authSession, authUser, authToken>>
  /\ UNCHANGED outsideEffect

\* The database answers fetch op of instance i's load n. The request carries the
\* session the client holds when it leaves, which is any moment up to the answer:
\* fetchTasks sends its select after getSession and the probe have returned.
LoadAnswered(i, n, op) ==
  /\ n \in DOMAIN loads[i]
  /\ loads[i][n].fetches[op].phase = "sent"
  /\ LET u == loads[i][n].user
         data == IF op = "fetchTasks" THEN FetchedTasks(authToken, u)
                 ELSE FetchedCategories(authToken, u)
     IN loads' = [loads EXCEPT ![i][n].fetches[op] =
                                 [phase |-> "answered", res |-> Ok(data)]]
  /\ UNCHANGED <<tasks, categories, loading, error, effect, channels, subscriptionRef,
                 subscribed, nFailures, authSession, authUser, authToken>>
  /\ UNCHANGED outsideEffect

\* the network fails fetch op of instance i's load n
LoadRequestFails(i, n, op, e) ==
  /\ n \in DOMAIN loads[i]
  /\ loads[i][n].fetches[op].phase = "sent"
  /\ nFailures < limits.failures
  /\ nFailures' = nFailures + 1
  /\ loads' = [loads EXCEPT ![i][n].fetches[op] =
                              [phase |-> "answered", res |-> Fail(e)]]
  /\ UNCHANGED <<tasks, categories, loading, error, effect, channels, subscriptionRef,
                 subscribed, authSession, authUser, authToken>>
  /\ UNCHANGED outsideEffect

\* Fetch op of instance i's load n returns from its await: setTasks /
\* setCategories, or throw; and when Promise.all settles with it, the rest of
\* loadData: the channel on success, setError on failure, clearTimeout and
\* setLoading(false) on both. State setters of an unmounted component do nothing.
LoadFetchDone(i, n, op) ==
  /\ n \in DOMAIN loads[i]
  /\ loads[i][n].fetches[op].phase = "answered"
  /\ LET l == loads[i][n]
         res == l.fetches[op].res
         other == CHOOSE o \in Fetches : o # op
         settles == ~l.settled /\ (~res.ok \/ l.fetches[other].phase = "done")
         alive == i = Shown /\ effect[i].state # "unmounted"
     IN /\ loads' = [loads EXCEPT ![i][n].fetches[op] = [phase |-> "done", res |-> NoRes],
                                  ![i][n].settled = l.settled \/ settles,
                                  ![i][n].timer = l.timer /\ ~settles]
        /\ tasks' = IF alive /\ op = "fetchTasks" /\ res.ok THEN res.data ELSE tasks
        /\ categories' = IF alive /\ op = "fetchCategories" /\ res.ok THEN res.data
                         ELSE categories
        /\ loading' = IF alive /\ settles THEN FALSE ELSE loading
        /\ error' = IF alive /\ settles /\ ~res.ok THEN Thrown([op |-> op, res |-> res])
                    ELSE error
        /\ IF settles /\ res.ok
             THEN SetupRealtimeSubscription(i, n, l.user)
           ELSE UNCHANGED <<channels, subscriptionRef>>
  /\ subscribed' = (subscriptionRef'[Shown] # 0)
  /\ UNCHANGED <<effect, nFailures, authSession, authUser, authToken>>
  /\ UNCHANGED outsideEffect

\* the 15 s timer of instance i's load n fires
LoadTimesOut(i, n) ==
  /\ n \in DOMAIN loads[i]
  /\ loads[i][n].timer
  /\ loads' = [loads EXCEPT ![i][n].timer = FALSE]
  /\ IF i = Shown /\ effect[i].state # "unmounted"
       THEN /\ loading' = FALSE
            /\ error' = "Taking longer than expected to load. Please check your connection and try again."
     ELSE UNCHANGED <<loading, error>>
  /\ UNCHANGED <<tasks, categories, effect, channels, subscriptionRef, subscribed,
                 nFailures, authSession, authUser, authToken>>
  /\ UNCHANGED outsideEffect

\* the first account is signed in and no component that calls useTasks has
\* mounted yet; each of the two accounts has its default categories and one task
InitEffect ==
  /\ HookFresh
  /\ limits = Limits(0, 0, 1)
  /\ AuthSettled
  /\ NoWorker
  /\ dbUsers = [u \in Uids |-> ProfileOf(u)]
  /\ dbCategories = create_default_categories(ProfileOf(User), 0)
                      @@ create_default_categories(ProfileOf(Other), 1)
  /\ dbTasks = (1 :> TaskInStatus(1, "todo"))
                 @@ (2 :> [TaskInStatus(2, "todo") EXCEPT !.user_id = Other])
  /\ now = 2
  /\ lastOp = NoOp
  /\ appOnly = {}

NextEffect ==
  \/ \E i \in Instances : Mount(i)
  \/ \E i \in Instances : MountStrict(i)
  \/ \E u \in Uids \cup {NULL} : UserChanges(u)
  \/ \E i \in Instances : EffectReruns(i)
  \/ \E i \in Instances : Unmount(i)
  \/ \E i \in Instances, n \in 1..MaxLoads, op \in Fetches : LoadAnswered(i, n, op)
  \/ \E i \in Instances, n \in 1..MaxLoads, op \in Fetches, e \in RequestErrors :
       LoadRequestFails(i, n, op, e)
  \/ \E i \in Instances, n \in 1..MaxLoads, op \in Fetches : LoadFetchDone(i, n, op)
  \/ \E i \in Instances, n \in 1..MaxLoads : LoadTimesOut(i, n)

SpecEffect == InitEffect /\ [][NextEffect]_vars

\* ------------------------------------------------------------- statements
\* Sessions of the accounts send statements to the three tables through the API.
\* Session a has auth.uid() = a. A statement that is rejected changes nothing.

\* select * from table
SelectFrom(a, table) ==
  /\ lastOp' = Did(a, table, "SELECT",
                   {r \in TableRows(table) : Using(table, "SELECT", a, r)})
  /\ UNCHANGED <<dbUsers, dbCategories, dbTasks, now, appOnly>>
  /\ UNCHANGED outsideDb

\* UNIQUE(user_id, name), the row id itself left out
NameTaken(new) ==
  \E r \in Range(dbCategories) :
    r.id # new.id /\ r.user_id = new.user_id /\ r.name = new.name

\* insert into users (id, email, full_name) values (new) by session a. The
\* trigger's insert into categories runs in the same statement, as the session:
\* when either insert is rejected nothing is written.
InsertIntoUsers(a, new) ==
  LET made == create_default_categories(new, now + 1)
  IN IF \/ ~WithCheck("users", "INSERT", a, new)
        \/ \E id \in DOMAIN made : ~WithCheck("categories", "INSERT", a, made[id])
       THEN /\ lastOp' = Refused(a, "users", "INSERT", "row-level security")
            /\ UNCHANGED <<dbUsers, dbCategories, now>>
     ELSE IF \/ new.id \in DOMAIN dbUsers
             \/ \E r \in Range(dbUsers) : r.email = new.email
             \/ \E id \in DOMAIN made : NameTaken(made[id])
       THEN /\ lastOp' = Refused(a, "users", "INSERT", "unique")
            /\ UNCHANGED <<dbUsers, dbCategories, now>>
     ELSE /\ dbUsers' = (new.id :> new) @@ dbUsers
          /\ dbCategories' = made @@ dbCategories
          /\ now' = now + 1
          /\ lastOp' = Did(a, "users", "INSERT", {new})

\* a profile insert sent to the API
InsertUser(a, uid) ==
  /\ now < MaxDbWrites
  /\ InsertIntoUsers(a, ProfileOf(uid))
  /\ UNCHANGED <<dbTasks, appOnly>>
  /\ UNCHANGED outsideDb

UserUpdates == {[full_name |-> "n"]} \cup {[id |-> u] : u \in Uids}

\* update users set (vals) where id = uid
UpdateUser(a, uid, vals) ==
  /\ now < MaxDbWrites
  /\ IF uid \notin DOMAIN dbUsers \/ ~Using("users", "UPDATE", a, dbUsers[uid])
       THEN /\ lastOp' = Did(a, "users", "UPDATE", {})
            /\ UNCHANGED <<dbUsers, now>>
     ELSE LET old == dbUsers[uid]
              new == [col \in DOMAIN old |->
                        IF col \in DOMAIN vals THEN vals[col] ELSE old[col]]
          IN IF ~WithCheck("users", "UPDATE", a, new)
               THEN /\ lastOp' = Refused(a, "users", "UPDATE", "row-level security")
                    /\ UNCHANGED <<dbUsers, now>>
             ELSE /\ dbUsers' = [dbUsers EXCEPT ![uid] = new]
                  /\ now' = now + 1
                  /\ lastOp' = Did(a, "users", "UPDATE", {old, new})
  /\ UNCHANGED <<dbCategories, dbTasks, appOnly>>
  /\ UNCHANGED outsideDb

\* delete from users where id = uid: no policy FOR DELETE, no row is reached
DeleteUser(a, uid) ==
  /\ now < MaxDbWrites
  /\ LET rows == {r \in Range(dbUsers) : r.id = uid /\ Using("users", "DELETE", a, r)}
     IN /\ dbUsers' = [id \in DOMAIN dbUsers \ {r.id : r \in rows} |-> dbUsers[id]]
        /\ lastOp' = Did(a, "users", "DELETE", rows)
  /\ UNCHANGED <<dbCategories, dbTasks, now, appOnly>>
  /\ UNCHANGED outsideDb

CategoryInserts == {[user_id |-> u, name |-> n] : u \in Uids, n \in {"Work", "Errands"}}

\* insert into categories (user_id, name)
InsertCategory(a, vals) ==
  /\ now < MaxDbWrites
  /\ LET new == [id |-> 10 * (now + 1), user_id |-> vals.user_id,
                 name |-> vals.name, color |-> "#667eea"]
     IN IF ~WithCheck("categories", "INSERT", a, new)
          THEN /\ lastOp' = Refused(a, "categories", "INSERT", "row-level security")
               /\ UNCHANGED <<dbCategories, now>>
        ELSE IF new.user_id \notin DOMAIN dbUsers
          THEN /\ lastOp' = Refused(a, "categories", "INSERT", "foreign key")
               /\ UNCHANGED <<dbCategories, now>>
        ELSE IF NameTaken(new)
          THEN /\ lastOp' = Refused(a, "categories", "INSERT", "unique")
               /\ UNCHANGED <<dbCategories, now>>
        ELSE /\ dbCategories' = (new.id :> new) @@ dbCategories
             /\ now' = now + 1
             /\ lastOp' = Did(a, "categories", "INSERT", {new})
  /\ UNCHANGED <<dbUsers, dbTasks, appOnly>>
  /\ UNCHANGED outsideDb

CategoryUpdates == {[name |-> "Errands"]} \cup {[user_id |-> u] : u \in Uids}

\* update categories set (vals) where id = id
UpdateCategory(a, id, vals) ==
  /\ now < MaxDbWrites
  /\ IF id \notin DOMAIN dbCategories \/ ~Using("categories", "UPDATE", a, dbCategories[id])
       THEN /\ lastOp' = Did(a, "categories", "UPDATE", {})
            /\ UNCHANGED <<dbCategories, now>>
     ELSE LET old == dbCategories[id]
              new == [col \in DOMAIN old |->
                        IF col \in DOMAIN vals THEN vals[col] ELSE old[col]]
          IN IF ~WithCheck("categories", "UPDATE", a, new)
               THEN /\ lastOp' = Refused(a, "categories", "UPDATE", "row-level security")
                    /\ UNCHANGED <<dbCategories, now>>
             ELSE IF NameTaken(new)
               THEN /\ lastOp' = Refused(a, "categories", "UPDATE", "unique")
                    /\ UNCHANGED <<dbCategories, now>>
             ELSE /\ dbCategories' = [dbCategories EXCEPT ![id] = new]
                  /\ now' = now + 1
                  /\ lastOp' = Did(a, "categories", "UPDATE", {old, new})
  /\ UNCHANGED <<dbUsers, dbTasks, appOnly>>
  /\ UNCHANGED outsideDb

\* tasks.category_id REFERENCES categories(id) ON DELETE SET NULL: the update the
\* database makes to every task that refers to a deleted category; the tasks
\* table's BEFORE UPDATE triggers run on it
SetNull(gone, t) ==
  [id \in DOMAIN dbTasks |->
     IF dbTasks[id].category_id \in gone
       THEN UpdatedTaskRow(dbTasks[id], [category_id |-> NoId], t)
     ELSE dbTasks[id]]

\* delete from categories where id = id
DeleteCategory(a, id) ==
  /\ now < MaxDbWrites
  /\ LET rows == {r \in Range(dbCategories) :
                    r.id = id /\ Using("categories", "DELETE", a, r)}
         gone == {r.id : r \in rows}
     IN IF rows = {}
          THEN /\ lastOp' = Did(a, "categories", "DELETE", {})
               /\ UNCHANGED <<dbCategories, dbTasks, now>>
        ELSE /\ dbCategories' = [i \in DOMAIN dbCategories \ gone |-> dbCategories[i]]
             /\ dbTasks' = SetNull(gone, now + 1)
             /\ now' = now + 1
             /\ lastOp' = Did(a, "categories", "DELETE", rows)
  /\ UNCHANGED <<dbUsers, appOnly>>
  /\ UNCHANGED outsideDb

\* the foreign keys of a tasks row point at rows that exist
TaskKeysExist(new) ==
  /\ new.user_id \in DOMAIN dbUsers
  /\ new.category_id = NoId \/ new.category_id \in DOMAIN dbCategories

\* insert into tasks (cols of vals)
InsertIntoTasks(a, vals) ==
  LET new == NewTaskRow(vals, now + 1)
  IN IF ~WithCheck("tasks", "INSERT", a, new)
       THEN /\ lastOp' = Refused(a, "tasks", "INSERT", "row-level security")
            /\ UNCHANGED <<dbTasks, now>>
     ELSE IF ~TaskKeysExist(new)
       THEN /\ lastOp' = Refused(a, "tasks", "INSERT", "foreign key")
            /\ UNCHANGED <<dbTasks, now>>
     ELSE /\ dbTasks' = (new.id :> new) @@ dbTasks
          /\ now' = now + 1
          /\ lastOp' = Did(a, "tasks", "INSERT", {new})

\* update tasks set (cols of vals) where id = id
UpdateTasksWhere(a, id, vals) ==
  IF id \notin DOMAIN dbTasks \/ ~Using("tasks", "UPDATE", a, dbTasks[id])
    THEN /\ lastOp' = Did(a, "tasks", "UPDATE", {})
         /\ UNCHANGED <<dbTasks, now>>
  ELSE LET old == dbTasks[id]
           new == UpdatedTaskRow(old, vals, now + 1)
       IN IF ~WithCheck("tasks", "UPDATE", a, new)
            THEN /\ lastOp' = Refused(a, "tasks", "UPDATE", "row-level security")
                 /\ UNCHANGED <<dbTasks, now>>
          ELSE IF ~TaskKeysExist(new)
            THEN /\ lastOp' = Refused(a, "tasks", "UPDATE", "foreign key")
                 /\ UNCHANGED <<dbTasks, now>>
          ELSE /\ dbTasks' = [dbTasks EXCEPT ![id] = new]
               /\ now' = now + 1
               /\ lastOp' = Did(a, "tasks", "UPDATE", {old, new})

\* CreateTaskData values, the category any row of the categories table
DbCreateInputs ==
  CreateInputs \cup
  {[title |-> "a", priority |-> "medium", category_id |-> c] : c \in DOMAIN dbCategories}

\* createTask of session a: insert into tasks ({...taskData, user_id: user.id})
CreateTaskAs(a, d) ==
  /\ now < MaxDbWrites
  /\ InsertIntoTasks(a, [user_id |-> a] @@ d)
  /\ appOnly' = IF lastOp'.error = NULL THEN appOnly \cup {now + 1} ELSE appOnly
  /\ UNCHANGED <<dbUsers, dbCategories>>
  /\ UNCHANGED outsideDb

\* UpdateTaskData values
DbUpdateInputs ==
  {[title |-> "b"]} \cup {[status |-> st] : st \in {"todo", "in_progress", "completed"}}

\* updateTask and toggleTaskStatus of session a: update tasks set (updates) where id = id
UpdateTaskAs(a, id, u) ==
  /\ now < MaxDbWrites
  /\ UpdateTasksWhere(a, id, u)
  /\ UNCHANGED <<dbUsers, dbCategories, appOnly>>
  /\ UNCHANGED outsideDb

\* deleteTask of session a: delete from tasks where id = id
DeleteTaskAs(a, id) ==
  /\ now < MaxDbWrites
  /\ LET rows == {r \in Range(dbTasks) : r.id = id /\ Using("tasks", "DELETE", a, r)}
     IN IF rows = {}
          THEN /\ lastOp' = Did(a, "tasks", "DELETE", {})
               /\ UNCHANGED <<dbTasks, now>>
        ELSE /\ dbTasks' = [i \in DOMAIN dbTasks \ {id} |-> dbTasks[i]]
             /\ now' = now + 1
             /\ lastOp' = Did(a, "tasks", "DELETE", rows)
  /\ UNCHANGED <<dbUsers, dbCategories, appOnly>>
  /\ UNCHANGED outsideDb

\* rows the application never sends: another owner, a status or a completion time
\* chosen by the sender
DirectInserts == {[user_id |-> u, title |-> "a", status |-> "completed"] : u \in Uids}

DirectUpdates == {[user_id |-> u] : u \in Uids} \cup {[completed_at |-> NoTime]}

\* an insert into tasks sent to the API directly
InsertTaskDirectly(a, vals) ==
  /\ now < MaxDbWrites
  /\ InsertIntoTasks(a, vals)
  /\ UNCHANGED <<dbUsers, dbCategories, appOnly>>
  /\ UNCHANGED outsideDb

\* an update of tasks sent to the API directly
UpdateTaskDirectly(a, id, vals) ==
  /\ now < MaxDbWrites
  /\ UpdateTasksWhere(a, id, vals)
  /\ appOnly' = IF now' # now THEN appOnly \ {id} ELSE appOnly
  /\ UNCHANGED <<dbUsers, dbCategories>>
  /\ UNCHANGED outsideDb

\* the tables as the migration leaves them
InitDb ==
  /\ HookUnmounted
  /\ AuthMounted /\ authToken = NULL
  /\ NoWorker
  /\ dbUsers = <<>>
  /\ dbCategories = <<>>
  /\ dbTasks = <<>>
  /\ now = 0
  /\ lastOp = NoOp
  /\ appOnly = {}

NextDb ==
  \/ \E a \in Uids, table \in Tables : SelectFrom(a, table)
  \/ \E a \in Uids, uid \in Uids : InsertUser(a, uid)
  \/ \E a \in Uids, uid \in Uids, vals \in UserUpdates : UpdateUser(a, uid, vals)
  \/ \E a \in Uids, uid \in Uids : DeleteUser(a, uid)
  \/ \E a \in Uids, vals \in CategoryInserts : InsertCategory(a, vals)
  \/ \E a \in Uids, id \in DOMAIN dbCategories, vals \in CategoryUpdates :
       UpdateCategory(a, id, vals)
  \/ \E a \in Uids, id \in DOMAIN dbCategories : DeleteCategory(a, id)
  \/ \E a \in Uids, d \in DbCreateInputs : CreateTaskAs(a, d)
  \/ \E a \in Uids, id \in DOMAIN dbTasks, u \in DbUpdateInputs : UpdateTaskAs(a, id, u)
  \/ \E a \in Uids, id \in DOMAIN dbTasks : DeleteTaskAs(a, id)
  \/ \E a \in Uids, vals \in DirectInserts : InsertTaskDirectly(a, vals)
  \/ \E a \in Uids, id \in DOMAIN dbTasks, vals \in DirectUpdates :
       UpdateTaskDirectly(a, id, vals)

SpecDb == InitDb /\ [][NextDb]_vars

\* one account: what the application and direct statements of the same account
\* do to its tasks, and what deleting a category does to them
NextTasks ==
  \/ InsertUser(User, User)
  \/ \E d \in DbCreateInputs : CreateTaskAs(User, d)
  \/ \E id \in DOMAIN dbTasks, u \in DbUpdateInputs : UpdateTaskAs(User, id, u)
  \/ \E id \in DOMAIN dbTasks : DeleteTaskAs(User, id)
  \/ \E vals \in DirectInserts : InsertTaskDirectly(User, vals)
  \/ \E id \in DOMAIN dbTasks, vals \in DirectUpdates : UpdateTaskDirectly(User, id, vals)
  \/ \E id \in DOMAIN dbCategories : DeleteCategory(User, id)

SpecTasks == InitDb /\ [][NextTasks]_vars

\* ------------------------------------------------------------- AuthProvider
\* A callback of the provider calls its state setters one after another. React
\* renders after each call or after several of them; Commit applies the calls
\* up to the next render and renders. No other callback runs in between.
Set(field, value) == [field |-> field, value |-> value]

RECURSIVE Applied(_, _)
\* the state after the setter calls `sets`
Applied(state, sets) ==
  IF sets = <<>> THEN state
  ELSE Applied([state EXCEPT ![sets[1].field] = sets[1].value], Tail(sets))

Commit(k) ==
  /\ k \in 1..Len(pendingSets)
  /\ LET st == Applied([session |-> authSession, user |-> authUser,
                        loading |-> authLoading], SubSeq(pendingSets, 1, k))
     IN /\ authSession' = st.session
        /\ authUser' = st.user
        /\ authLoading' = st.loading
        /\ screen' = AppContent(st.user, st.loading)
        /\ route' = ProtectedRoute(st.user, st.loading)
  /\ pendingSets' = SubSeq(pendingSets, k + 1, Len(pendingSets))
  /\ UNCHANGED <<authPc, authToken, authTimer, handlers, handled, reached,
                 nAuthEvents, nAuthFailures>>
  /\ UNCHANGED <<dbUsers, dbCategories, now, lastOp>>
  /\ UNCHANGED outsideAuth

\* getSession() resolves with the stored session, or with an error and none:
\* clearTimeout, setSession, setUser, setLoading(false)
GetSessionResolved(s) ==
  /\ authPc = "pending" /\ pendingSets = <<>>
  /\ s \in {authToken, NULL}
  /\ authPc' = "settled"
  /\ authTimer' = FALSE
  /\ pendingSets' = <<Set("session", s), Set("user", s), Set("loading", FALSE)>>
  /\ UNCHANGED <<authSession, authUser, authLoading, authToken, handlers, handled,
                 reached, screen, route, nAuthEvents, nAuthFailures>>
  /\ UNCHANGED <<dbUsers, dbCategories, now, lastOp>>
  /\ UNCHANGED outsideAuth

\* getSession() rejects: clearTimeout, setError, setLoading(false)
GetSessionRejected ==
  /\ authPc = "pending" /\ pendingSets = <<>>
  /\ authPc' = "settled"
  /\ authTimer' = FALSE
  /\ pendingSets' = <<Set("loading", FALSE)>>
  /\ UNCHANGED <<authSession, authUser, authLoading, authToken, handlers, handled,
                 reached, screen, route, nAuthEvents, nAuthFailures>>
  /\ UNCHANGED <<dbUsers, dbCategories, now, lastOp>>
  /\ UNCHANGED outsideAuth

\* the 10 s timeout fires before getSession() settles: setLoading(false), setError
SessionTimeout ==
  /\ authTimer /\ pendingSets = <<>>
  /\ authTimer' = FALSE
  /\ pendingSets' = <<Set("loading", FALSE)>>
  /\ UNCHANGED <<authSession, authUser, authLoading, authPc, authToken, handlers,
                 handled, reached, screen, route, nAuthEvents, nAuthFailures>>
  /\ UNCHANGED <<dbUsers, dbCategories, now, lastOp>>
  /\ UNCHANGED outsideAuth

\* what the client passes to the onAuthStateChange callback; one account uses
\* this browser
AuthEvents ==
  {[event |-> "SIGNED_IN", session |-> User]} \cup
  {[event |-> "SIGNED_OUT", session |-> NULL]} \cup
  {[event |-> e, session |-> authToken] : e \in {"INITIAL_SESSION", "TOKEN_REFRESHED"}}

\* the onAuthStateChange callback up to its first await: the three setters, and
\* on SIGNED_IN with a user the profile check, sent with the client's session
AuthStateChange(ev) ==
  /\ nAuthEvents < MaxAuthEvents /\ pendingSets = <<>>
  /\ nAuthEvents' = nAuthEvents + 1
  /\ authToken' = ev.session
  /\ pendingSets' = <<Set("session", ev.session), Set("user", ev.session),
                      Set("loading", FALSE)>>
  /\ handlers' =
       IF ev.event = "SIGNED_IN" /\ ev.session # NULL
         THEN handlers \cup {[tag |-> nAuthEvents + 1, uid |-> ev.session,
                              phase |-> "check", as |-> ev.session]}
       ELSE handlers
  /\ UNCHANGED <<authSession, authUser, authLoading, authPc, authTimer, handled,
                 reached, screen, route, nAuthFailures>>
  /\ UNCHANGED <<dbUsers, dbCategories, now, lastOp>>
  /\ UNCHANGED outsideAuth

\* select id from users where id = h.uid, .single(), answered, and the callback
\* resumed: if (!existingUser) createUserProfile sends its insert with the
\* session the client holds by then
ProfileCheck(h) ==
  /\ h \in handlers /\ h.phase = "check"
  /\ LET rows == {r \in Range(dbUsers) : r.id = h.uid /\ Using("users", "SELECT", h.as, r)}
     IN /\ lastOp' = Did(h.as, "users", "SELECT", rows)
        /\ IF rows # {}
             THEN /\ handlers' = handlers \ {h}
                  /\ handled' = handled \cup {h.uid}
                  /\ reached' = reached \cup {h.uid}
           ELSE /\ handlers' = (handlers \ {h}) \cup
                               {[h EXCEPT !.phase = "insert", !.as = authToken]}
                /\ UNCHANGED <<handled, reached>>
  /\ UNCHANGED <<authSession, authUser, authLoading, authPc, authToken, authTimer,
                 pendingSets, screen, route, nAuthEvents, nAuthFailures>>
  /\ UNCHANGED <<dbUsers, dbCategories, now>>
  /\ UNCHANGED outsideAuth

\* createUserProfile's insert executed; an error is logged and nothing else
ProfileInsert(h) ==
  /\ h \in handlers /\ h.phase = "insert"
  /\ InsertIntoUsers(h.as, ProfileOf(h.uid))
  /\ handlers' = handlers \ {h}
  /\ handled' = handled \cup {h.uid}
  /\ reached' = IF h.as = h.uid THEN reached \cup {h.uid} ELSE reached
  /\ UNCHANGED <<authSession, authUser, authLoading, authPc, authToken, authTimer,
                 pendingSets, screen, route, nAuthEvents, nAuthFailures>>
  /\ UNCHANGED outsideAuth

\* a profile request fails before it reaches the database. The check: the client
\* returns the error (no data: the insert follows) or throws it (the catch ends
\* the handler). The insert: the error is logged.
ProfileRequestFails(h, thrown) ==
  /\ h \in handlers
  /\ nAuthFailures < MaxAuthFailures
  /\ nAuthFailures' = nAuthFailures + 1
  /\ IF h.phase = "check" /\ ~thrown
       THEN /\ handlers' = (handlers \ {h}) \cup
                           {[h EXCEPT !.phase = "insert", !.as = authToken]}
            /\ UNCHANGED handled
     ELSE /\ handlers' = handlers \ {h}
          /\ handled' = handled \cup {h.uid}
  /\ UNCHANGED <<authSession, authUser, authLoading, authPc, authToken, authTimer,
                 pendingSets, reached, screen, route, nAuthEvents>>
  /\ UNCHANGED <<dbUsers, dbCategories, now, lastOp>>
  /\ UNCHANGED outsideAuth

\* the provider mounted on a database no account has signed in to
InitAuth ==
  /\ HookUnmounted
  /\ AuthMounted
  /\ NoWorker
  /\ dbUsers = <<>>
  /\ dbCategories = <<>>
  /\ dbTasks = <<>>
  /\ now = 0
  /\ lastOp = NoOp
  /\ appOnly = {}

NextAuth ==
  \/ \E k \in 1..Len(pendingSets) : Commit(k)
  \/ \E s \in {User, NULL} : GetSessionResolved(s)
  \/ GetSessionRejected
  \/ SessionTimeout
  \/ \E ev \in AuthEvents : AuthStateChange(ev)
  \/ \E h \in handlers : ProfileCheck(h)
  \/ \E h \in handlers : ProfileInsert(h)
  \/ \E h \in handlers, thrown \in BOOLEAN : ProfileRequestFails(h, thrown)

SpecAuth == InitAuth /\ [][NextAuth]_vars

\* ------------------------------------------------------------- service worker
\* Strings the worker inspects are sequences of characters, so that includes,
\* startsWith, endsWith and URL parsing are computed on them.
CACHE_NAME == "task-manager-v1"

\* s.startsWith(p)
StartsWith(s, p) == Len(s) >= Len(p) /\ SubSeq(s, 1, Len(p)) = p

\* s.endsWith(p)
EndsWith(s, p) == Len(s) >= Len(p) /\ SubSeq(s, Len(s) - Len(p) + 1, Len(s)) = p

\* the first position at or after `from` where p occurs in s; 0 when it does not
IndexOf(s, p, from) ==
  LET at == {i \in from..(Len(s) - Len(p) + 1) : SubSeq(s, i, i + Len(p) - 1) = p}
  IN IF at = {} THEN 0 ELSE CHOOSE i \in at : \A j \in at : i <= j

\* s.includes(p)
Includes(s, p) == IndexOf(s, p, 1) # 0

\* new URL(url).pathname: what follows the host, up to the query or fragment
Pathname(url) ==
  LET host == IndexOf(url, <<":", "/", "/">>, 1) + 3
      slash == IndexOf(url, <<"/">>, host)
      query == IndexOf(url, <<"?">>, host)
      hash == IndexOf(url, <<"#">>, host)
      stops == {i \in {query, hash} : i # 0}
      stop == IF stops = {} THEN Len(url) + 1 ELSE CHOOSE i \in stops : \A j \in stops : i <= j
  IN IF slash = 0 \/ slash > stop THEN <<"/">> ELSE SubSeq(url, slash, stop - 1)

cacheableExtensions ==
  { <<".", "j", "s">>, <<".", "c", "s", "s">>, <<".", "p", "n", "g">>, <<".", "j", "p", "g">>, <<".", "j", "p", "e", "g">>, <<".", "g", "i", "f">>, <<".", "s", "v", "g">>,
    <<".", "w", "o", "f", "f">>, <<".", "w", "o", "f", "f", "2">>, <<".", "t", "t", "f">>, <<".", "e", "o", "t">> }

\* shouldCache with includes in the place of endsWith
shouldCacheIncludes(url) ==
  LET urlPath == Pathname(url)
  IN \/ \E ext \in cacheableExtensions : Includes(urlPath, ext)
     \/ urlPath = <<"/">>
     \/ urlPath = <<"/", "i", "n", "d", "e", "x", ".", "h", "t", "m", "l">>

shouldCache(url) ==
  LET urlPath == Pathname(url)
  IN \/ \E ext \in cacheableExtensions : EndsWith(urlPath, ext)
     \/ urlPath = <<"/">>
     \/ urlPath = <<"/", "i", "n", "d", "e", "x", ".", "h", "t", "m", "l">>

\* self.location.origin
Origin == <<"h", "t", "t", "p", "s", ":", "/", "/", "a", ".", "i", "o">>

STATIC_ASSETS == << <<"/">>, <<"/", "i", "n", "d", "e", "x", ".", "h", "t", "m", "l">>, <<"/", "v", "i", "t", "e", ".", "s", "v", "g">>, <<"/", "m", "a", "n", "i", "f", "e", "s", "t", ".", "j", "s", "o", "n">> >>

\* a path of the worker's origin as a URL
Url(path) == Origin \o path

\* the response a same-origin fetch gets has type 'basic'
SameOrigin(url) == StartsWith(url, Url(<<"/">>))

\* what the pages ask for
Requests ==
  { [method |-> "GET", url |-> Url(<<"/">>), mode |-> "navigate"],
    [method |-> "GET", url |-> Url(<<"/", "a", "p", "p", ".", "j", "s", "?", "v", "=", "2">>), mode |-> "no-cors"],
    [method |-> "GET", url |-> Url(<<"/", "m", ".", "j", "s", "o", "n">>), mode |-> "cors"],
    [method |-> "POST", url |-> Url(<<"/", "a", "p", "p", ".", "j", "s", "?", "v", "=", "2">>), mode |-> "cors"],
    [method |-> "GET", url |-> <<"h", "t", "t", "p", "s", ":", "/", "/", "x", ".", "s", "u", "p", "a", "b", "a", "s", "e", ".", "c", "o", "/", "t", ".", "j", "s">>, mode |-> "cors"],
    [method |-> "GET", url |-> <<"c", "h", "r", "o", "m", "e", "-", "e", "x", "t", "e", "n", "s", "i", "o", "n", ":", "/", "/", "e", "/", "a", ".", "j", "s">>, mode |-> "no-cors"],
    [method |-> "GET", url |-> <<"h", "t", "t", "p", "s", ":", "/", "/", "c", "d", "n", ".", "i", "o", "/", "f", ".", "w", "o", "f", "f", "2">>, mode |-> "cors"] }

\* no response: undefined
NoResponse == [status |-> -1, type |-> "none", body |-> "none"]

\* what cache.addAll stored at install time
Installed == [status |-> 200, type |-> "basic", body |-> "installed"]

\* what the network answers a request with, when it answers
NetResponses(req) ==
  IF SameOrigin(req.url)
    THEN {[status |-> st, type |-> "basic", body |-> "fetched"] : st \in {200, 404}}
  ELSE IF req.mode = "no-cors"
    THEN {[status |-> 0, type |-> "opaque", body |-> "fetched"]}
  ELSE {[status |-> 200, type |-> "cors", body |-> "fetched"]}

\* caches.match(url): a response some cache holds for the URL, or undefined
CacheMatch(url) ==
  LET held == {n \in DOMAIN swCaches : url \in DOMAIN swCaches[n]}
  IN IF held = {} THEN NoResponse
     ELSE swCaches[CHOOSE n \in held : TRUE][url]

\* the fetch listener with its first early return alone
SkippedMethodOnly(req) == req.method # "GET"

\* the three early returns of the fetch listener
Skipped(req) ==
  \/ req.method # "GET"
  \/ Includes(req.url, <<"s", "u", "p", "a", "b", "a", "s", "e", ".", "c", "o">>)
  \/ StartsWith(req.url, <<"c", "h", "r", "o", "m", "e", "-", "e", "x", "t", "e", "n", "s", "i", "o", "n", ":", "/", "/">>)

\* if (!response || response.status !== 200 || response.type !== 'basic') return response
Storable(response) ==
  ~(response = NoResponse \/ response.status # 200 \/ response.type # "basic")

Event(req, phase) ==
  [req |-> req, phase |-> phase, response |-> NoResponse, net |-> FALSE, source |-> NULL]

\* the fetch listener: return early, or respondWith(caches.match(event.request)...)
FetchEvent(req) ==
  /\ swWorker.state = "activated"
  /\ Len(swRequests) < MaxRequests
  /\ swRequests' = Append(swRequests,
                          Event(req, IF Skipped(req) THEN "passed" ELSE "matching"))
  /\ UNCHANGED <<swCaches, swPuts, swWorker>>
  /\ UNCHANGED outsideSW

\* caches.match resolved: the cached response is the answer, or fetch(event.request)
MatchResolves(i) ==
  /\ i \in DOMAIN swRequests /\ swRequests[i].phase = "matching"
  /\ LET cachedResponse == CacheMatch(swRequests[i].req.url)
     IN swRequests' =
          IF cachedResponse # NoResponse
            THEN [swRequests EXCEPT ![i].phase = "done", ![i].response = cachedResponse,
                                    ![i].source = "cache"]
          ELSE [swRequests EXCEPT ![i].phase = "fetching", ![i].net = TRUE]
  /\ UNCHANGED <<swCaches, swPuts, swWorker>>
  /\ UNCHANGED outsideSW

\* fetch resolved: the response is the answer, and a clone of it goes to the
\* cache when it is storable and shouldCache(event.request.url)
NetworkResponds(i, response) ==
  /\ i \in DOMAIN swRequests /\ swRequests[i].phase = "fetching"
  /\ response \in NetResponses(swRequests[i].req)
  /\ swRequests' = [swRequests EXCEPT ![i].phase = "done", ![i].response = response,
                                      ![i].source = "network"]
  /\ swPuts' = IF Storable(response) /\ shouldCache(swRequests[i].req.url)
                 THEN swPuts \cup {[url |-> swRequests[i].req.url, response |-> response]}
               ELSE swPuts
  /\ UNCHANGED <<swCaches, swWorker>>
  /\ UNCHANGED outsideSW

\* fetch rejected: a navigation is answered with caches.match('/'), for any other
\* request the error is thrown on
NetworkFails(i) ==
  /\ i \in DOMAIN swRequests /\ swRequests[i].phase = "fetching"
  /\ swRequests' =
       IF swRequests[i].req.mode = "navigate"
         THEN [swRequests EXCEPT ![i].phase = "done", ![i].source = "fallback",
                                 ![i].response = CacheMatch(Url(<<"/">>))]
       ELSE [swRequests EXCEPT ![i].phase = "failed"]
  /\ UNCHANGED <<swCaches, swPuts, swWorker>>
  /\ UNCHANGED outsideSW

\* caches.open(CACHE_NAME).then(cache => cache.put(event.request, responseToCache))
CachePut(p) ==
  /\ p \in swPuts
  /\ swPuts' = swPuts \ {p}
  /\ swCaches' =
       [n \in DOMAIN swCaches \cup {CACHE_NAME} |->
          IF n = CACHE_NAME
            THEN (p.url :> p.response) @@
                 (IF n \in DOMAIN swCaches THEN swCaches[n] ELSE <<>>)
          ELSE swCaches[n]]
  /\ UNCHANGED <<swRequests, swWorker>>
  /\ UNCHANGED outsideSW

\* the worker installed and activated: caches.open(CACHE_NAME) made the cache,
\* cache.addAll filled it or failed and left it empty
InitSW ==
  /\ HookUnmounted
  /\ AuthMounted /\ authToken = NULL
  /\ dbUsers = <<>>
  /\ dbCategories = <<>>
  /\ dbTasks = <<>>
  /\ now = 0
  /\ lastOp = NoOp
  /\ appOnly = {}
  /\ swCaches \in { (CACHE_NAME :> <<>>),
                    (CACHE_NAME :> [u \in {Url(STATIC_ASSETS[k]) : k \in DOMAIN STATIC_ASSETS}
                                      |-> Installed]) }
  /\ swRequests = <<>>
  /\ swPuts = {}
  /\ swWorker = [state |-> "activated", cacheNames |-> {}, pending |-> {}]

NextSW ==
  \/ \E req \in Requests : FetchEvent(req)
  \/ \E i \in DOMAIN swRequests : MatchResolves(i)
  \/ \E i \in DOMAIN swRequests :
       \E response \in NetResponses(swRequests[i].req) : NetworkResponds(i, response)
  \/ \E i \in DOMAIN swRequests : NetworkFails(i)
  \/ \E p \in swPuts : CachePut(p)

SpecSW == InitSW /\ [][NextSW]_vars

\* ------------------------------------------------------------- install, activate
\* caches other versions and other code of the origin left behind
OldCaches == {"task-manager-v0", "images"}

\* what such a cache holds
Stale == [status |-> 200, type |-> "basic", body |-> "stale"]

\* the entries cache.addAll(STATIC_ASSETS) writes
StaticEntries == [u \in {Url(STATIC_ASSETS[k]) : k \in DOMAIN STATIC_ASSETS} |-> Installed]

\* install: caches.open(CACHE_NAME) resolved, creating the cache if there was none
InstallOpens ==
  /\ swWorker.state = "installing"
  /\ swWorker' = [swWorker EXCEPT !.state = "caching"]
  /\ swCaches' = IF CACHE_NAME \in DOMAIN swCaches THEN swCaches
                 ELSE swCaches @@ (CACHE_NAME :> <<>>)
  /\ UNCHANGED <<swRequests, swPuts>>
  /\ UNCHANGED outsideSW

\* install: cache.addAll(STATIC_ASSETS) resolved, every asset is stored;
\* skipWaiting() follows
AddAllResolves ==
  /\ swWorker.state = "caching"
  /\ swWorker' = [swWorker EXCEPT !.state = "installed"]
  /\ swCaches' = [swCaches EXCEPT ![CACHE_NAME] = StaticEntries @@ @]
  /\ UNCHANGED <<swRequests, swPuts>>
  /\ UNCHANGED outsideSW

\* install: cache.addAll rejected (one asset failed to load) and stored nothing;
\* the catch logs the error, so waitUntil's promise is fulfilled all the same
AddAllRejects ==
  /\ swWorker.state = "caching"
  /\ swWorker' = [swWorker EXCEPT !.state = "installed"]
  /\ UNCHANGED <<swCaches, swRequests, swPuts>>
  /\ UNCHANGED outsideSW

\* activate without the deletion of old caches
ActivateEventKeepsAll ==
  /\ swWorker.state = "installed"
  /\ swWorker' = [state |-> "activating", cacheNames |-> DOMAIN swCaches, pending |-> {}]
  /\ UNCHANGED <<swCaches, swRequests, swPuts>>
  /\ UNCHANGED outsideSW

\* activate: caches.keys() resolved; caches.delete is called for every name
\* that is not CACHE_NAME
ActivateEvent ==
  /\ swWorker.state = "installed"
  /\ swWorker' = [state |-> "activating",
                  cacheNames |-> DOMAIN swCaches,
                  pending |-> {cacheName \in DOMAIN swCaches : cacheName # CACHE_NAME}]
  /\ UNCHANGED <<swCaches, swRequests, swPuts>>
  /\ UNCHANGED outsideSW

\* caches.delete(cacheName) resolved
CacheDelete(cacheName) ==
  /\ swWorker.state = "activating"
  /\ cacheName \in swWorker.pending
  /\ swWorker' = [swWorker EXCEPT !.pending = @ \ {cacheName}]
  /\ swCaches' = [n \in DOMAIN swCaches \ {cacheName} |-> swCaches[n]]
  /\ UNCHANGED <<swRequests, swPuts>>
  /\ UNCHANGED outsideSW

\* Promise.all resolved: 'Activated', clients.claim()
Activated ==
  /\ swWorker.state = "activating"
  /\ swWorker.pending = {}
  /\ swWorker' = [swWorker EXCEPT !.state = "activated", !.cacheNames = {}]
  /\ UNCHANGED <<swCaches, swRequests, swPuts>>
  /\ UNCHANGED outsideSW

\* the install event arrives: the origin holds any of the old caches, and a
\* cache named CACHE_NAME if this version was installed before
InitWorker ==
  /\ HookUnmounted
  /\ AuthMounted /\ authToken = NULL
  /\ dbUsers = <<>>
  /\ dbCategories = <<>>
  /\ dbTasks = <<>>
  /\ now = 0
  /\ lastOp = NoOp
  /\ appOnly = {}
  /\ \E old \in SUBSET OldCaches :
       swCaches \in { [n \in old |-> (Url(<<"/">>) :> Stale)],
                      [n \in old \cup {CACHE_NAME} |->
                         IF n = CACHE_NAME THEN StaticEntries ELSE (Url(<<"/">>) :> Stale)] }
  /\ swRequests = <<>>
  /\ swPuts = {}
  /\ swWorker = [state |-> "installing", cacheNames |-> {}, pending |-> {}]

NextWorker ==
  \/ InstallOpens
  \/ AddAllResolves
  \/ AddAllRejects
  \/ ActivateEvent
  \/ \E cacheName \in OldCaches : CacheDelete(cacheName)
  \/ Activated
  \/ NextSW

SpecWorker == InitWorker /\ [][NextWorker]_vars

\* ------------------------------------------------------------- C1
\* C1: in every reachable state the local task list holds no two entries with the
\* same id
NoDuplicateIds ==
  \A i, j \in DOMAIN tasks : tasks[i].id = tasks[j].id => i = j

\* a created task on which both the INSERT handler and the fallback timer have acted
BothAddersRan ==
  \E r \in results :
    /\ r.op = "createTask" /\ r.end = "returned"
    /\ \E ev \in rtSeen : ev.type = "INSERT" /\ ev.id = r.id
    /\ ~\E t \in timers : t.kind = "create" /\ t.id = r.id
    /\ ~\E c \in calls : c.op = "rtInsert" /\ c.id = r.id
    /\ Exists(tasks, r.id)

\* ------------------------------------------------------------- C2
\* the rows of the table and the entries of the list, as sets
ServerRows == {dbTasks[i] : i \in DOMAIN dbTasks}
LocalRows == {tasks[i] : i \in DOMAIN tasks}

\* C2: when only other clients have written, no event was lost and every handler
\* has finished, the local list holds exactly the server's rows
RemoteChangesConverge ==
  (effectPc = "loaded" /\ rtLost = {} /\ rtQueue = <<>> /\ calls = {})
    => (LocalRows = ServerRows /\ NoDuplicateIds)

\* ------------------------------------------------------------- C3
\* C3: when the fallback timer of a successful createTask fires, a row that no
\* handler has added is put at the front of the list and a row already in the list
\* leaves the list unchanged, so that the row is then present exactly once; and a
\* pending fallback leads to the row being present
CreateFallbackAdds ==
  /\ [][\A t \in timers :
          (t.kind = "create" /\ t \notin timers') =>
            /\ ~Exists(tasks, t.id) => tasks' = t.data \o tasks
            /\ Exists(tasks, t.id) => tasks' = tasks
            /\ Count(tasks', t.id) = 1]_vars
  /\ \A id \in TaskIds :
       (\E t \in timers : t.kind = "create" /\ t.id = id) ~> Exists(tasks, id)

\* the INSERT event of a created row was lost and the fallback has put the row first
FallbackAddedLostInsert ==
  \E r \in results :
    /\ r.op = "createTask" /\ r.end = "returned"
    /\ \E ev \in rtLost : ev.type = "INSERT" /\ ev.id = r.id
    /\ ~\E t \in timers : t.kind = "create" /\ t.id = r.id
    /\ Len(tasks) > 1 /\ tasks[1].id = r.id

\* ------------------------------------------------------------- C4
\* C4: when the fallback timer of a successful updateTask fires for a task of the
\* list and no UPDATE event for the task was handled, the entry of the list equals
\* the row the server returned
UpdateFallbackSyncs ==
  [][\A t \in timers :
       ( /\ t.kind = "update" /\ t \notin timers'
         /\ Exists(tasks, t.id)
         /\ ~\E ev \in rtSeen : ev.type = "UPDATE" /\ ev.id = t.id )
       => Find(tasks', t.id) = t.data[1]]_vars

\* ------------------------------------------------------------- C5
\* C5: a successful deleteTask leaves the list alone and arms the fallback, the
\* fallback removes the task and nothing else, and a pending fallback leads to the
\* task being absent; a failed deleteTask leaves the list unchanged, sets the error
\* state and throws
DeleteFallbackRemoves ==
  /\ [][\A t \in timers :
          (t.kind = "delete" /\ t \notin timers') =>
            ~Exists(tasks', t.id) /\ tasks' = Without(tasks, t.id)]_vars
  /\ [][\A c \in calls :
          (c.op = "deleteTask" /\ c.phase = "answered" /\ c \notin calls') =>
            /\ tasks' = tasks
            /\ c.res.ok => \E t \in timers' : t.kind = "delete" /\ t.id = c.id
            /\ ~c.res.ok =>
                 /\ error' # NULL
                 /\ [tag |-> c.tag, op |-> "deleteTask", id |-> c.id, end |-> "threw"]
                      \in results']_vars
  /\ \A id \in TaskIds :
       (\E t \in timers : t.kind = "delete" /\ t.id = id) ~> ~Exists(tasks, id)

\* the DELETE event of a deleted row was lost and the fallback has fired
FallbackRemovedLostDelete ==
  \E r \in results :
    /\ r.op = "deleteTask" /\ r.end = "returned"
    /\ \E ev \in rtLost : ev.type = "DELETE" /\ ev.id = r.id
    /\ ~\E t \in timers : t.kind = "delete" /\ t.id = r.id
    /\ ~Exists(tasks, r.id)

\* ------------------------------------------------------------- C6
\* C6: row level security keeps every account to its own rows. The rows a
\* statement of a session selects, inserts, updates or deletes are owned by the
\* session's account (users: id = auth.uid(); categories and tasks: user_id =
\* auth.uid()); a statement neither changes nor removes a row of another account,
\* adds rows for its own account only, and moves no row to another owner.
OthersUntouched(old, new, table, a) ==
  /\ \A id \in DOMAIN old :
       OwnerOf(table, old[id]) # a => id \in DOMAIN new /\ new[id] = old[id]
  /\ \A id \in DOMAIN new \ DOMAIN old : OwnerOf(table, new[id]) = a
  /\ \A id \in DOMAIN new \cap DOMAIN old :
       OwnerOf(table, new[id]) = OwnerOf(table, old[id])

OwnRowsOnly ==
  /\ [](\A r \in lastOp.rows : OwnerOf(lastOp.table, r) = lastOp.actor)
  /\ [][/\ OthersUntouched(dbUsers, dbUsers', "users", lastOp'.actor)
        /\ OthersUntouched(dbCategories, dbCategories', "categories", lastOp'.actor)
        /\ OthersUntouched(dbTasks, dbTasks', "tasks", lastOp'.actor)]_vars

\* ------------------------------------------------------------- C7
\* C7: for a task created by createTask and changed by updateTask and
\* toggleTaskStatus alone, completed_at is set exactly while the status is
\* 'completed'; an UPDATE stamps it with NOW() when the status becomes
\* 'completed', keeps it while the status stays 'completed', and resets it to
\* NULL when the status is anything else.
CompletedAtFollowsStatus ==
  /\ [](\A id \in appOnly \cap DOMAIN dbTasks :
          dbTasks[id].completed_at # NoTime <=> dbTasks[id].status = "completed")
  /\ [][\A id \in appOnly \cap appOnly' \cap DOMAIN dbTasks \cap DOMAIN dbTasks' :
          LET old == dbTasks[id]
              new == dbTasks'[id]
          IN new # old =>
               /\ new.status = "completed" /\ old.status # "completed"
                    => new.completed_at = now'
               /\ new.status = "completed" /\ old.status = "completed"
                    => new.completed_at = old.completed_at
               /\ new.status # "completed" => new.completed_at = NoTime]_vars

\* a completed task of the application was updated again and kept its stamp
CompletionKept ==
  \E id \in appOnly \cap DOMAIN dbTasks :
    /\ dbTasks[id].status = "completed"
    /\ dbTasks[id].completed_at # NoTime
    /\ dbTasks[id].updated_at > dbTasks[id].completed_at

\* ------------------------------------------------------------- C8
CategoriesOf(u) == {r \in Range(dbCategories) : r.user_id = u}

\* the four default categories, each exactly once, and no other
HasDefaultCategories(u) ==
  /\ Cardinality(CategoriesOf(u)) = 4
  /\ \A n \in {"Personal", "Work", "Shopping", "Health"} :
       Cardinality({r \in CategoriesOf(u) : r.name = n}) = 1

\* no step inserts anything for an account whose profile exists
ExistingProfilesKept ==
  \A u \in DOMAIN dbUsers :
    /\ Cardinality({r \in Range(dbUsers') : r.id = u}) = 1
    /\ dbUsers'[u] = dbUsers[u]
    /\ {r \in Range(dbCategories') : r.user_id = u} = CategoriesOf(u)

\* C8 as stated: once a SIGNED_IN handler has run to its end for a user, however
\* many events arrived and however their check-then-insert steps overlapped, the
\* user has exactly one row in users and the four default categories, each
\* exactly once; an event for a user whose profile exists inserts nothing.
ProfileExactlyOnce ==
  /\ [](\A u \in handled :
          /\ Cardinality({r \in Range(dbUsers) : r.id = u}) = 1
          /\ HasDefaultCategories(u))
  /\ [][ExistingProfilesKept]_vars

\* C8 as amended: the user has at most one row in users, and the four default
\* categories, each exactly once, exactly when that row exists; the row exists
\* once one handler has had its check answered with the row or its insert
\* executed under the user's own session; an event for a user whose profile
\* exists inserts nothing.
ProfileAtMostOnce ==
  /\ [](\A u \in Uids :
          /\ Cardinality({r \in Range(dbUsers) : r.id = u}) <= 1
          /\ IF u \in DOMAIN dbUsers THEN HasDefaultCategories(u)
             ELSE CategoriesOf(u) = {}
          /\ u \in reached => u \in DOMAIN dbUsers)
  /\ [][ExistingProfilesKept]_vars

\* two handlers overlapped: with no request failed, an insert found the row that
\* the other handler had inserted after this one's check
OverlappingInsertRefused ==
  /\ nAuthFailures = 0
  /\ lastOp.verb = "INSERT" /\ lastOp.error = "unique"
  /\ lastOp.actor \in DOMAIN dbUsers
  /\ HasDefaultCategories(lastOp.actor)

\* ------------------------------------------------------------- C9
\* C9: whatever auth events arrived, protected content (TaskManager in
\* AppContent, the children of ProtectedRoute) is on screen only while loading
\* is false and user is set; while loading is true the loading screen is, and
\* while loading is false and user is null AuthPage is.
ProtectedOnlyWhenSignedIn ==
  /\ authLoading => screen = "Loading" /\ route = "Loading"
  /\ ~authLoading /\ authUser = NULL => screen = "AuthPage" /\ route = "AuthPage"
  /\ screen = "TaskManager" \/ route = "children" => ~authLoading /\ authUser # NULL

\* signed out and in again: the protected content is back on screen
ProtectedShownAgain ==
  /\ screen = "TaskManager" /\ route = "children"
  /\ nAuthEvents >= 2

\* ------------------------------------------------------------- C10
\* the path is '/', '/index.html' or ends in a listed static extension
StaticPath(path) ==
  \/ path = <<"/">>
  \/ path = <<"/", "i", "n", "d", "e", "x", ".", "h", "t", "m", "l">>
  \/ \E ext \in cacheableExtensions : EndsWith(path, ext)

\* the entries of the caches that a step wrote
Written(n, url) ==
  \/ n \notin DOMAIN swCaches
  \/ url \notin DOMAIN swCaches[n]
  \/ swCaches[n][url] # swCaches'[n][url]

\* C10: a GET request the worker handles is answered with the cached response,
\* and without a network request, when a cache holds a match at the time
\* caches.match resolves; the network is fetched only when there is no match;
\* and a network response is written to the cache only if its status is 200,
\* its type is 'basic' and the path of the URL is '/', '/index.html' or ends in
\* a listed static extension.
CacheFirst ==
  /\ [](\A i \in DOMAIN swRequests :
          /\ swRequests[i].source = "cache" => ~swRequests[i].net
          /\ swRequests[i].phase # "passed" => swRequests[i].req.method = "GET")
  /\ [][\A i \in DOMAIN swRequests :
          swRequests[i].phase = "matching" /\ swRequests'[i].phase # "matching" =>
            LET cached == CacheMatch(swRequests[i].req.url)
            IN IF cached # NoResponse
                 THEN /\ swRequests'[i].phase = "done"
                      /\ swRequests'[i].response = cached
                      /\ ~swRequests'[i].net
               ELSE swRequests'[i].phase = "fetching" /\ swRequests'[i].net]_vars
  /\ [][\A i \in DOMAIN swRequests :
          ~swRequests[i].net /\ swRequests'[i].net =>
            CacheMatch(swRequests[i].req.url) = NoResponse]_vars
  /\ [][\A n \in DOMAIN swCaches' : \A url \in DOMAIN swCaches'[n] :
          Written(n, url) =>
            /\ swCaches'[n][url].status = 200
            /\ swCaches'[n][url].type = "basic"
            /\ StaticPath(Pathname(url))
            /\ \E i \in DOMAIN swRequests :
                 /\ swRequests[i].req.url = url
                 /\ swRequests[i].source = "network"
                 /\ swRequests[i].response = swCaches'[n][url]]_vars

\* a request was answered from the cache with a response that an earlier
\* request had fetched and the worker had stored
ServedWhatItCached ==
  \E i \in DOMAIN swRequests :
    /\ swRequests[i].source = "cache"
    /\ swRequests[i].response.body = "fetched"
    /\ ~swRequests[i].net

\* ------------------------------------------------------------- C11
\* the request is not a GET, or its URL contains 'supabase.co' or starts with
\* 'chrome-extension://'
Bypassed(req) ==
  \/ req.method # "GET"
  \/ \E k \in 1..(Len(req.url) - 10) :
       SubSeq(req.url, k, k + 10) = <<"s", "u", "p", "a", "b", "a", "s", "e", ".", "c", "o">>
  \/ Len(req.url) >= 19 /\ SubSeq(req.url, 1, 19) =
       <<"c", "h", "r", "o", "m", "e", "-", "e", "x", "t", "e", "n", "s", "i", "o", "n", ":", "/", "/">>

\* C11: for a request whose method is not GET, whose URL contains 'supabase.co'
\* or whose URL starts with 'chrome-extension://', respondWith is never called
\* (the worker gives no response and makes no fetch of its own, the request is
\* left to the network), its fetch event leaves the caches and the pending puts
\* as they were, every pending cache.put stems from a GET request outside these
\* three kinds that the worker fetched, and no cache of the worker holds an
\* entry for a URL of the two URL kinds.
SkippedRequestsUntouched ==
  /\ [](\A i \in DOMAIN swRequests :
          Bypassed(swRequests[i].req) =>
            /\ swRequests[i].phase = "passed"
            /\ swRequests[i].response = NoResponse
            /\ swRequests[i].source = NULL
            /\ ~swRequests[i].net)
  /\ [][Len(swRequests') > Len(swRequests) /\ Bypassed(swRequests'[Len(swRequests')].req) =>
          swCaches' = swCaches /\ swPuts' = swPuts]_vars
  /\ [](\A p \in swPuts : \E i \in DOMAIN swRequests :
          /\ swRequests[i].req.url = p.url
          /\ swRequests[i].req.method = "GET"
          /\ ~Bypassed(swRequests[i].req)
          /\ swRequests[i].source = "network")
  /\ [](\A n \in DOMAIN swCaches : \A url \in DOMAIN swCaches[n] :
          ~Bypassed([method |-> "GET", url |-> url]))

\* a POST, a request to supabase.co and a request of an extension have all
\* passed the worker, next to a cache that holds entries
AllThreeKindsPassed ==
  /\ \E i \in DOMAIN swRequests :
       swRequests[i].req.method # "GET" /\ swRequests[i].phase = "passed"
  /\ \E i \in DOMAIN swRequests :
       /\ Includes(swRequests[i].req.url, <<"s", "u", "p", "a", "b", "a", "s", "e", ".", "c", "o">>)
       /\ swRequests[i].phase = "passed"
  /\ \E i \in DOMAIN swRequests :
       /\ StartsWith(swRequests[i].req.url, <<"c", "h", "r", "o", "m", "e", "-">>)
       /\ swRequests[i].phase = "passed"
  /\ swCaches[CACHE_NAME] # <<>>

\* ------------------------------------------------------------- C12
\* C12: when the activate step completes (every caches.delete it called has
\* resolved), no cache with a name other than CACHE_NAME is left and the cache
\* named CACHE_NAME exists, whichever caches the origin held before; and no step
\* of the activation removes or changes the cache named CACHE_NAME.
ActivateCleansUp ==
  /\ [](\/ swWorker.state = "activated"
        \/ swWorker.state = "activating" /\ swWorker.pending = {}
        => DOMAIN swCaches = {CACHE_NAME})
  /\ [][swWorker.state \in {"installed", "activating"} =>
          /\ CACHE_NAME \in DOMAIN swCaches'
          /\ swCaches'[CACHE_NAME] = swCaches[CACHE_NAME]]_vars

\* the activate handler found both old caches next to CACHE_NAME, and its
\* deletions have resolved
BothOldCachesDeleted ==
  /\ swWorker.state = "activating"
  /\ swWorker.cacheNames = OldCaches \cup {CACHE_NAME}
  /\ swWorker.pending = {}
  /\ swCaches[CACHE_NAME] # <<>>

\* ------------------------------------------------------------- C13
\* C13: once the worker is installed and active, when the fetch of a request
\* without a cache match fails, a navigation request is answered with the '/'
\* document of the cache, and for any other request the error is passed on.
OfflineNavigationAnswered ==
  [][\A i \in DOMAIN swRequests :
       /\ swRequests[i].phase = "fetching"
       /\ swRequests'[i].phase # "fetching"
       /\ swRequests'[i].source # "network"
       => IF swRequests[i].req.mode = "navigate"
            THEN /\ swRequests'[i].phase = "done"
                 /\ swRequests'[i].response # NoResponse
                 /\ swRequests'[i].response.status = 200
          ELSE swRequests'[i].phase = "failed" /\ swRequests'[i].response = NoResponse]_vars

\* ------------------------------------------------------------- C14
\* C14: when the fallback timer of a successful updateTask fires and the list
\* holds, for the task, a version the server wrote after the one updateTask
\* returned (merged by a real-time UPDATE in between), the entry stays as it is.
FallbackKeepsLaterVersion ==
  [][\A t \in timers :
       t.kind = "update" /\ t \notin timers' =>
         \A i \in DOMAIN tasks :
           tasks[i].id = t.id /\ tasks[i].updated_at > t.data[1].updated_at =>
             /\ i \in DOMAIN tasks'
             /\ tasks'[i] = tasks[i]]_vars

\* ------------------------------------------------------------- C15
\* the server has deleted the task and the hook has taken note: the DELETE
\* handler ran for it, or the fallback of a successful deleteTask fired
RemovedAsDeleted(id) ==
  /\ id \notin DOMAIN dbTasks
  /\ ~Exists(tasks, id)
  /\ \/ \E ev \in rtSeen : ev.type = "DELETE" /\ ev.id = id
     \/ /\ \E r \in results : r.op = "deleteTask" /\ r.id = id /\ r.end = "returned"
        /\ ~\E t \in timers : t.kind = "delete" /\ t.id = id

\* the step is a create fallback firing for the task, or an INSERT or UPDATE
\* handler for it returning from its await
LateAdder(id) ==
  \/ \E t \in timers : t.kind = "create" /\ t.id = id /\ t \notin timers'
  \/ \E c \in calls : c.op \in {"rtInsert", "rtUpdate"} /\ c.id = id /\ c \notin calls'

\* C15: once a task is gone from the list because the server deleted it (the
\* DELETE handler or the delete fallback took it out), neither a create fallback
\* that was still pending nor an INSERT or UPDATE handler that was still in
\* flight puts it back.
DeletedStaysRemoved ==
  [][\A id \in TaskIds :
       RemovedAsDeleted(id) /\ LateAdder(id) => ~Exists(tasks', id)]_vars

\* ------------------------------------------------------------- C16
\* the attempts of createTask that await their Promise.race
Attempts == {c \in calls : c.op = "createTask" /\ c.phase \in {"sent", "answered"}}

\* the step ends the await of attempt c
AttemptEnds(c) ==
  ~\E n \in calls' : /\ n.tag = c.tag /\ n.op = "createTask" /\ n.attempt = c.attempt
                     /\ n.phase \in {"sent", "answered"}

\* the step makes the call of attempt c return the created row
AttemptSucceeds(c) ==
  \E r \in results' \ results : r.tag = c.tag /\ r.op = "createTask" /\ r.end = "returned"

OneRowPerCreate == Cardinality(DOMAIN dbTasks) <= nCalls

\* ------------------------------------------------------------- C18
\* the calls of updateTask that toggleTaskStatus made and awaits
Toggles == {c \in calls : c.op = "updateTask" /\ c.skip}

\* the calls the step made
Started == {c \in calls' : ~\E o \in calls : o.tag = c.tag /\ o.op = c.op}

\* C18: a toggle remembers the status the task had in the list when it
\* started; when its server update fails, the entry of that task gets that
\* status back and keeps its other fields, every other entry stays as it is,
\* the error state is 'Failed to update task status', and toggleTaskStatus
\* returns rather than throws.
ToggleRevertsOnFailure ==
  /\ [][\A c \in Started : c.op = "updateTask" /\ c.skip =>
          \E i \in DOMAIN tasks : tasks[i].id = c.id /\ tasks[i].status = c.revert]_vars
  /\ [][\A c \in Toggles :
          c.phase = "answered" /\ ~c.res.ok /\ c \notin calls' =>
            /\ DOMAIN tasks' = DOMAIN tasks
            /\ \A i \in DOMAIN tasks :
                 tasks'[i] = IF tasks[i].id = c.id
                               THEN [tasks[i] EXCEPT !.status = c.revert]
                             ELSE tasks[i]
            /\ error' = "Failed to update task status"
            /\ \E r \in results' \ results :
                 r.tag = c.tag /\ r.op = "toggleTaskStatus" /\ r.end = "returned"
            /\ ~\E r \in results' : r.tag = c.tag /\ r.end = "threw"]_vars

\* the toggle of one of two listed tasks has failed and returned, and the
\* list shows both tasks in the statuses the server has
ToggleFailedAndReverted ==
  /\ error = "Failed to update task status"
  /\ nFailures = 1
  /\ \E r \in results : r.op = "toggleTaskStatus" /\ r.end = "returned"
  /\ Len(tasks) = 2
  /\ \A i \in DOMAIN tasks : tasks[i].status = dbTasks[tasks[i].id].status
  /\ now = 2

\* ------------------------------------------------------------- C19
\* C19: a toggle of a listed task sets, in the step that sends the server
\* update and before the database has seen it, the status of that entry to
\* 'todo' when it was 'completed' and to 'completed' otherwise, and sends that
\* status; it changes no other entry and no other field. A toggle of an id the
\* list does not hold returns at once, changes nothing and sends nothing. The
\* second of two successive successful toggles of a task (the first has
\* returned, no other is in flight) sets the status the task started with
\* exactly when that status was 'todo' or 'completed'.
ToggleSetsStatus ==
  /\ [][\A c \in Started : c.op = "updateTask" /\ c.skip =>
          /\ c.phase = "sent"
          /\ dbTasks' = dbTasks
          /\ c.arg = [status |-> IF c.revert = "completed" THEN "todo" ELSE "completed"]
          /\ DOMAIN tasks' = DOMAIN tasks
          /\ \A i \in DOMAIN tasks :
               tasks'[i] = IF tasks[i].id = c.id
                             THEN [tasks[i] EXCEPT !.status = c.arg.status]
                           ELSE tasks[i]]_vars
  /\ [][\A r \in results' \ results :
          r.op = "toggleTaskStatus" /\ nCalls' # nCalls =>
            /\ ~Exists(tasks, r.id)
            /\ tasks' = tasks
            /\ calls' = calls
            /\ dbTasks' = dbTasks]_vars
  /\ [][nCalls' # nCalls /\ Started = {} =>
          \E r \in results' \ results : ~Exists(tasks, r.id)]_vars
  /\ [][\A c \in Started :
          /\ c.op = "updateTask" /\ c.skip
          /\ nFailures = 0
          /\ Cardinality({r \in results : r.op = "toggleTaskStatus" /\ r.id = c.id}) = 1
          /\ ~\E o \in calls : o.op = "updateTask" /\ o.id = c.id
          /\ dbTasks[c.id].updated_at # dbTasks[c.id].created_at
          => (c.arg.status = dbTasks[c.id].title
                <=> dbTasks[c.id].title \in {"todo", "completed"})]_vars

\* two toggles of a task that was 'in_progress' have succeeded one after the
\* other: the task is 'todo', on the server and in the list
TwiceToggledInProgress ==
  /\ Cardinality({r \in results : r.op = "toggleTaskStatus" /\ r.id = 1}) = 2
  /\ nFailures = 0
  /\ now = 4
  /\ dbTasks[1].title = "in_progress"
  /\ dbTasks[1].status = "todo"
  /\ Exists(tasks, 1) /\ Find(tasks, 1).status = "todo"

\* ------------------------------------------------------------- C20
\* the fetches of loadData that have not ended
LoadFetches(cs) ==
  {c \in cs : c.owner = 0 /\ c.op \in {"fetchTasks", "fetchCategories"}}

\* C20: a channel exists only after the initial load has succeeded: the step
\* that sets up the subscription is the return of the last of fetchTasks and
\* fetchCategories, that fetch has succeeded and none has failed before; after
\* a failed fetch there is no channel.
SubscribedAfterLoad ==
  /\ [](subscribed => effectPc = "loaded")
  /\ [](effectPc \in {"mount", "loading", "failed"} => ~subscribed)
  /\ [][~subscribed /\ subscribed' =>
          /\ effectPc = "loading"
          /\ LoadFetches(calls') = {}
          /\ \E c \in LoadFetches(calls) :
               /\ LoadFetches(calls) = {c}
               /\ c.phase = "answered"
               /\ c.res.ok]_vars

\* the 15 s timeout has fired, the fetches have resolved all the same and the
\* channel has been set up with the fetched tasks in the list
SubscribedAfterSlowLoad ==
  /\ subscribed
  /\ error = "Taking longer than expected to load. Please check your connection and try again."
  /\ tasks # <<>>
  /\ categories # <<>>

\* ------------------------------------------------------------- C21
\* C21: whenever loading is true it becomes false again, also when the fetch
\* requests are never answered
LoadingEnds == loading ~> ~loading

\* ------------------------------------------------------------- C22
\* the channels instance i of the hook has created and not removed
ChannelsOf(i) == {ch \in channels : ch.inst = i}

\* the fetches of a load have all returned
Finished(l) == \A op \in Fetches : l.fetches[op].phase = "done"

CleanedUp(i, n) == n < Len(loads[i]) \/ ~effect[i].cleanup

\* C23: a channel created by an effect run whose cleanup has run is not
\* subscribed, unless the component is mounted and the channel filters on the
\* user signed in now
NoChannelOfPreviousUser ==
  \A i \in Instances : \A ch \in ChannelsOf(i) :
    CleanedUp(i, ch.load) => (effect[i].state = "mounted" /\ ch.filter = authUser)

\* ------------------------------------------------------------- C24
\* C24: when the user has changed from the first account to the second and both
\* loads have ended without a failure, the list and the categories are the
\* second account's and the one channel filters on the second account
SwitchEndsWithSecondUser ==
  ( /\ effect[Shown] = [state |-> "mounted", cleanup |-> TRUE, pending |-> FALSE]
    /\ authUser = Other
    /\ nFailures = 0
    /\ Len(loads[Shown]) = 2
    /\ loads[Shown][1].user = User /\ loads[Shown][2].user = Other
    /\ Finished(loads[Shown][1]) /\ Finished(loads[Shown][2]) )
  => ( /\ tasks = FetchedTasks(Other, Other)
       /\ categories = FetchedCategories(Other, Other)
       /\ \A ch \in ChannelsOf(Shown) : ch.filter = Other
       /\ ChannelsOf(Shown) # {} )
====
